---- MODULE Spec2Model ----
(***************************************************************************)
(* Model of the Conversly db-ingestor ingestion pipeline:                  *)
(*   admission (Service.Process), the two-channel WorkerPool, the          *)
(*   ingestion orchestrator (Service.ProcessIngestionJob) and the          *)
(*   embedding worker (WorkerPool.processEmbeddingJob) with its retry      *)
(*   path, against a storage gateway holding the Embeddings table and the  *)
(*   DataSource status column.                                             *)
(***************************************************************************)
EXTENDS Naturals, Integers, Sequences, FiniteSets, Bags, TLC

\* ---------------------------------------------------------------- bounds
NumWorkers == 2        \* worker goroutines of the pool
QueueCapacity == 1     \* capacity of each of the two channels
MaxRequests == 2       \* calls of Service.Process in one behaviour
MaxChunks == 1         \* most chunks a decoder returns for one source
MaxFaults == 4         \* embedding attempts in which the embedder or the
                       \* storage returns an error, in one behaviour

MaxWords == 4          \* most words of a text given to the chunker
MaxTexts == 6          \* most texts given to one EmbedBatch call
MaxConfig == 12        \* largest WorkerCount and BatchSize of a configuration
MaxChunkSize == 3      \* largest chunk size and overlap asked of NewChunker

\* ------------------------------------------------------- program constants
maxEmbeddingRetries == 3
defaultChunkSize == 1000
semCapacity == 5
defaultQueueCapacity == 100

Workers == 1..NumWorkers
DSIds == {"d1", "d2"}
Kinds == {"website", "qa", "document", "text"}
NoJob == [none |-> TRUE]

\* The requests a caller submits: the four source arrays of
\* types.ProcessRequest, each entry reduced to its datasourceId.
ReqMerged ==
  [WebsiteURLs |-> <<>>, QandAData |-> <<>>,
   Documents |-> <<"d1">>, TextContent |-> <<"d1">>]
ReqMixed ==
  [WebsiteURLs |-> <<>>, QandAData |-> <<"d1">>,
   Documents |-> <<>>, TextContent |-> <<"d2">>]
ReqQA ==
  [WebsiteURLs |-> <<>>, QandAData |-> <<"d2">>,
   Documents |-> <<>>, TextContent |-> <<>>]
\* The call sequences of a caller: one request over two datasources, or a
\* request whose two sources share a datasource followed by single Q&A pairs.
Scripts ==
  {<<ReqMixed>>}
    \cup {<<ReqMerged>> \o [i \in 1..k |-> ReqQA] : k \in 0..(MaxRequests - 1)}
\* The requests the n-th call may carry after the n-1 requests in prev.
RequestsAt(prev) ==
  {sc[Len(prev) + 1] : sc \in {x \in Scripts :
      Len(x) > Len(prev) /\ \A i \in DOMAIN prev : x[i] = prev[i]}}

VARIABLES
  embedder,        \* wp.embedder # nil
  db,              \* wp.db # nil
  processFunc,     \* wp.processFunc # nil
  started,         \* wp.started
  quit,            \* wp.quit is closed
  stopWait,        \* where the caller of Stop is: "idle", "waiting" in the
                   \*   final select, or returned "stopped" / "timeout"
  ingestionJobs,   \* buffered channel wp.ingestionJobs
  embeddingJobs,   \* buffered channel wp.embeddingJobs
  wpc,             \* position of each worker goroutine
  wjob,            \* the job a worker is executing
  pending,         \* per-source goroutines of processAllSources not yet done
  results,         \* processAllSources: results
  totalChunks,     \* processAllSources: totalChunks
  allChunks,       \* processAllSources: allChunks
  remaining,       \* ProcessIngestionJob: datasources still to dispatch
  calls,           \* the requests passed to Service.Process so far
  responses,       \* what each Service.Process call returned
  Embeddings,      \* committed rows of the Embeddings table (a bag)
  DataSource,      \* status column of the DataSource table
  statusWrites,    \* history: statuses written, per ingestion job and datasource
  dispatched,      \* history: per chain, the accepted embedding jobs each
                   \*   chunk has been in (a bag of chunks)
  chain,           \* history: summary of each retry chain
  faults,          \* history: attempts that met an embedder or storage error
  input,           \* the arguments of a function examined on its own
  output           \* what the function returned for them

poolVars == <<embedder, db, processFunc, started, quit, stopWait>>
queueVars == <<ingestionJobs, embeddingJobs>>
workerVars == <<wpc, wjob>>
orchVars == <<pending, results, totalChunks, allChunks, remaining>>
admVars == <<calls, responses>>
dbVars == <<Embeddings, DataSource, statusWrites>>
histVars == <<dispatched, chain, faults>>
pipeVars == <<poolVars, queueVars, workerVars, orchVars, admVars, dbVars, histVars>>
funVars == <<input, output>>
vars == <<pipeVars, funVars>>

\* ---------------------------------------------------------------- helpers
Range(s) == {s[i] : i \in DOMAIN s}

SelectIdx(s, keep) ==
  LET F[i \in 0..Len(s)] ==
        IF i = 0 THEN <<>>
        ELSE IF i \in keep THEN Append(F[i - 1], s[i]) ELSE F[i - 1]
  IN F[Len(s)]

IngIds == 1..MaxRequests
ChainKeys == IngIds \X DSIds

\* ------------------------------------------------------------------- Init
\* NewWorkerPool and NewService: empty channels, quit open, not started.
\* The embedder and the storage client are configured or nil.
NewPipeline ==
  /\ embedder \in BOOLEAN
  /\ db \in BOOLEAN
  /\ processFunc = FALSE
  /\ started = FALSE
  /\ quit = FALSE
  /\ stopWait = "idle"
  /\ ingestionJobs = <<>>
  /\ embeddingJobs = <<>>
  /\ wpc = [w \in Workers |-> "unspawned"]
  /\ wjob = [w \in Workers |-> NoJob]
  /\ pending = [w \in Workers |-> {}]
  /\ results = [w \in Workers |-> <<>>]
  /\ totalChunks = [w \in Workers |-> 0]
  /\ allChunks = [w \in Workers |-> <<>>]
  /\ remaining = [w \in Workers |-> {}]
  /\ calls = <<>>
  /\ responses = <<>>
  /\ Embeddings = EmptyBag
  /\ DataSource = [d \in DSIds |-> "PENDING"]
  /\ statusWrites = [k \in ChainKeys |-> <<>>]
  /\ dispatched = [k \in ChainKeys |-> EmptyBag]
  /\ chain = [k \in ChainKeys |-> [embedded |-> FALSE, statusErr |-> FALSE]]
  /\ faults = 0

Init ==
  /\ NewPipeline
  /\ input = NoJob
  /\ output = NoJob

\* ------------------------------------------------------------ worker pool
\* WorkerPool.SetProcessFunc
SetProcessFunc ==
  /\ ~processFunc
  /\ processFunc' = TRUE
  /\ UNCHANGED <<funVars, embedder, db, started, quit, stopWait, queueVars, workerVars,
                 orchVars, admVars, dbVars, histVars>>

\* WorkerPool.Start: a second Start returns at once.
Start ==
  /\ ~started
  /\ started' = TRUE
  /\ wpc' = [w \in Workers |-> "select"]
  /\ UNCHANGED <<funVars, embedder, db, processFunc, quit, stopWait, queueVars, wjob,
                 orchVars, admVars, dbVars, histVars>>

\* WorkerPool.Stop up to its final select: close(quit) on a started pool,
\* then wait for the workers or for the caller's context.
Stop ==
  /\ started
  /\ ~quit
  /\ quit' = TRUE
  /\ stopWait' = "waiting"
  /\ UNCHANGED <<funVars, embedder, db, processFunc, started, queueVars, workerVars,
                 orchVars, admVars, dbVars, histVars>>

\* Mutant: done is closed as soon as one worker has exited.
wgWaitAny == \E w \in Workers : wpc[w] = "exited"

\* wp.wg.Wait() has returned, so done is closed: every worker goroutine ran
\* its deferred wg.Done.
wgWait == \A w \in Workers : wpc[w] = "exited"

\* Stop's final select: case <-done once every worker has exited, or
\* case <-ctx.Done() whenever the caller's context ends.
StopReturn ==
  /\ stopWait = "waiting"
  /\ \/ wgWait /\ stopWait' = "stopped"
     \/ stopWait' = "timeout"
  /\ UNCHANGED <<funVars, embedder, db, processFunc, started, quit, queueVars,
                 workerVars, orchVars, admVars, dbVars, histVars>>

\* Mutant: the send is accepted once more after the buffer is full.
ChannelAcceptsOverfull(q, ch) == ~q /\ Len(ch) <= QueueCapacity

\* Mutant: the quit channel is not consulted.
ChannelAcceptsWhileStopping(q, ch) == Len(ch) < QueueCapacity

\* The non-blocking send shared by Enqueue and EnqueueIngestion: refused
\* when quit is closed, then refused when the channel buffer is full.
ChannelAccepts(q, ch) == ~q /\ Len(ch) < QueueCapacity

\* Mutant: Enqueue skips the test of the quit channel.
EnqueueIgnoresQuit(job) == Len(embeddingJobs) < QueueCapacity

\* WorkerPool.Enqueue
Enqueue(job) == ChannelAccepts(quit, embeddingJobs)

\* Mutant: the send ignores the buffer's capacity.
EnqueueIngestionUnbounded(job) == ~quit

\* WorkerPool.EnqueueIngestion
EnqueueIngestion(job) == ChannelAccepts(quit, ingestionJobs)

\* Mutant: quit carries one value instead of being closed, so only the first
\* worker to receive from it exits.
WorkerQuitOnce(w) ==
  /\ wpc[w] = "select"
  /\ quit
  /\ \A v \in Workers : wpc[v] # "exited"
  /\ wpc' = [wpc EXCEPT ![w] = "exited"]
  /\ UNCHANGED <<funVars, poolVars, queueVars, wjob, orchVars, admVars, dbVars, histVars>>

\* The worker loop's case <-wp.quit.
WorkerQuit(w) ==
  /\ wpc[w] = "select"
  /\ quit
  /\ wpc' = [wpc EXCEPT ![w] = "exited"]
  /\ UNCHANGED <<funVars, poolVars, queueVars, wjob, orchVars, admVars, dbVars, histVars>>

\* ------------------------------------------------------- pool lifecycle
\* Calls of Start and Stop in any number and order. input records the last
\* call that returned without touching the pool, output a runtime panic of
\* the process.
\* WorkerPool.Start, called at any time: if wp.started, return.
StartCall ==
  IF started
  THEN /\ input' = [call |-> "Start", spawned |-> 0]
       /\ UNCHANGED <<pipeVars, output>>
  ELSE Start

\* WorkerPool.Stop, called at any time: if !wp.started, return; otherwise
\* close(wp.quit), and closing a closed channel panics.
StopCall ==
  IF ~started
  THEN /\ input' = [call |-> "Stop", spawned |-> 0]
       /\ UNCHANGED <<pipeVars, output>>
  ELSE IF quit
       THEN /\ output' = [panic |-> "close of closed channel"]
            /\ UNCHANGED <<pipeVars, input>>
       ELSE Stop

\* A panic outside any recover ends the process: no step follows it.
PoolNext ==
  /\ output = NoJob
  /\ \/ SetProcessFunc
     \/ StartCall
     \/ StopCall
     \/ StopReturn
     \/ \E w \in Workers : WorkerQuit(w)

PoolSpec == Init /\ [][PoolNext]_vars

\* -------------------------------------------------------------- admission
\* Mutant: the text entries are left out of the count.
calculateTotalSourcesNoText(req) ==
  Len(req.WebsiteURLs) + Len(req.QandAData) + Len(req.Documents)

\* Service.calculateTotalSources
calculateTotalSources(req) ==
  Len(req.WebsiteURLs) + Len(req.QandAData) + Len(req.Documents)
    + Len(req.TextContent)

\* Mutant: the response reports the outcome of a finished run, as a
\* synchronous Process would.
ProcessResponseSync(jobID, req) ==
  [JobID |-> jobID, Status |-> "completed", Error |-> "",
   TotalSources |-> calculateTotalSources(req)]

\* The response Service.Process builds once the job is enqueued.
ProcessResponse(jobID, req) ==
  [JobID |-> jobID, Status |-> "processing", Error |-> "",
   TotalSources |-> calculateTotalSources(req)]

\* The error Service.Process returns when EnqueueIngestion refuses.
ProcessRejected(jobID) ==
  [JobID |-> jobID, Status |-> "error",
   Error |-> "ingestion queue is full, try again later", TotalSources |-> 0]

\* Service.Process: uuid.New, EnqueueIngestion, response.
Process(req) ==
  /\ calls' = Append(calls, req)
  /\ LET jobID == Len(calls) + 1
         job == [JobID |-> jobID, Request |-> req]
     IN IF EnqueueIngestion(job)
        THEN /\ ingestionJobs' = Append(ingestionJobs, job)
             /\ responses' = Append(responses, ProcessResponse(jobID, req))
        ELSE /\ ingestionJobs' = ingestionJobs
             /\ responses' = Append(responses, ProcessRejected(jobID))
  /\ UNCHANGED <<funVars, poolVars, embeddingJobs, workerVars, orchVars, dbVars, histVars>>

\* Mutant: the test for a request without sources is left out.
ValidateNoSourceTest(r) == ""

\* ProcessRequest.Validate: the error message, "" for nil. The entries of
\* the requests here are well formed, so the per-entry checks pass.
Validate(r) ==
  LET hasWebsites == Len(r.WebsiteURLs) > 0
      hasQA == Len(r.QandAData) > 0
      hasDocuments == Len(r.Documents) > 0
      hasText == Len(r.TextContent) > 0
  IN IF ~hasWebsites /\ ~hasQA /\ ~hasDocuments /\ ~hasText
     THEN "at least one data source must be provided"
     ELSE ""

\* ValidateProcessRequest, the validator Controller.Process calls.
ValidateProcessRequest(req) == Validate(req)

\* The requests a handler can be given once bound: each source array absent
\* or with one entry.
AdmitRequests ==
  [WebsiteURLs : {<<>>, <<"d1">>}, QandAData : {<<>>, <<"d1">>},
   Documents : {<<>>, <<"d2">>}, TextContent : {<<>>, <<"d2">>}]

\* Controller.Process after a successful bind: a request the validator
\* refuses is answered 400 and goes no further (the replies are kept in
\* output); any other is handed to Service.Process.
ControllerProcess(req) ==
  /\ Len(calls) + Len(output) < MaxRequests
  /\ IF ValidateProcessRequest(req) # ""
     THEN /\ output' = Append(output, [Code |-> 400, Error |-> "Bad Request",
                                       Message |-> ValidateProcessRequest(req),
                                       Request |-> req])
          /\ UNCHANGED <<pipeVars, input>>
     ELSE Process(req)

\* The handler in front of a pool that is not draining its queue.
AdmitInit ==
  /\ NewPipeline /\ embedder /\ db
  /\ input = NoJob
  /\ output = <<>>

AdmitNext == \E req \in AdmitRequests : ControllerProcess(req)

AdmitSpec == AdmitInit /\ [][AdmitNext]_vars

\* ----------------------------------------------------------- orchestrator
\* The per-source goroutines processAllSources starts: one per array entry.
SourcesOf(req) ==
  {<<"website", i>> : i \in DOMAIN req.WebsiteURLs}
    \cup {<<"qa", i>> : i \in DOMAIN req.QandAData}
    \cup {<<"document", i>> : i \in DOMAIN req.Documents}
    \cup {<<"text", i>> : i \in DOMAIN req.TextContent}

DatasourceOf(req, s) ==
  CASE s[1] = "website" -> req.WebsiteURLs[s[2]]
    [] s[1] = "qa" -> req.QandAData[s[2]]
    [] s[1] = "document" -> req.Documents[s[2]]
    [] s[1] = "text" -> req.TextContent[s[2]]

\* What a source goroutine can come back with: the download failed (documents
\* only), the decoder returned an error (QAProcessor.Process never does), or
\* it returned n chunks (QAProcessor.Process: exactly one).
Outcomes(s) ==
  (IF s[1] = "document" THEN {[kind |-> "download", n |-> 0]} ELSE {})
    \cup (IF s[1] = "qa" THEN {} ELSE {[kind |-> "decode", n |-> 0]})
    \cup {[kind |-> "ok", n |-> n] :
            n \in IF s[1] = "qa" THEN {1} ELSE 0..MaxChunks}

\* The SourceResult appended for a source: processSource, and the literal
\* built on a download failure.
SourceResult(jobID, datasourceID, s, o) ==
  [DatasourceID |-> datasourceID, Source |-> s,
   Status |-> IF o.kind = "ok" THEN "success" ELSE "failed",
   Error |-> CASE o.kind = "download" -> "Failed to download"
               [] o.kind = "decode" -> "decode error"
               [] OTHER -> "",
   ChunkCount |-> o.n]

\* Service.convertAndAddCitationToChunks: the chunks of one decoded source,
\* each carrying the datasourceId of its source.
convertAndAddCitationToChunks(jobID, datasourceID, s, n) ==
  [i \in 1..n |->
     [ing |-> jobID, DatasourceID |-> datasourceID, Source |-> s,
      ChunkIndex |-> i - 1]]

\* The worker loop's case job := <-wp.ingestionJobs, up to the start of the
\* per-source goroutines. With no processFunc the job is only consumed.
TakeIngestion(w) ==
  /\ wpc[w] = "select"
  /\ ingestionJobs # <<>>
  /\ ingestionJobs' = Tail(ingestionJobs)
  /\ IF processFunc
     THEN /\ wpc' = [wpc EXCEPT ![w] = "ingest"]
          /\ wjob' = [wjob EXCEPT ![w] = Head(ingestionJobs)]
          /\ pending' = [pending EXCEPT ![w] = SourcesOf(Head(ingestionJobs).Request)]
     ELSE UNCHANGED <<wpc, wjob, pending>>
  /\ UNCHANGED <<funVars, poolVars, embeddingJobs, results, totalChunks, allChunks,
                 remaining, admVars, dbVars, histVars>>

\* Mutant: the collectors are updated without the mutex, so a goroutine may
\* write back a value computed from the empty collectors it read at its start.
SourceTaskUnlocked(w, s) ==
  /\ wpc[w] = "ingest"
  /\ s \in pending[w]
  /\ \E o \in Outcomes(s), stale \in BOOLEAN :
       LET job == wjob[w]
           d == DatasourceOf(job.Request, s)
       IN /\ results' = [results EXCEPT ![w] =
                           Append(@, SourceResult(job.JobID, d, s, o))]
          /\ totalChunks' = [totalChunks EXCEPT ![w] =
                               IF stale THEN o.n ELSE @ + o.n]
          /\ allChunks' = [allChunks EXCEPT ![w] =
                             (IF stale THEN <<>> ELSE @)
                               \o convertAndAddCitationToChunks(job.JobID, d, s, o.n)]
  /\ pending' = [pending EXCEPT ![w] = @ \ {s}]
  /\ UNCHANGED <<funVars, poolVars, queueVars, workerVars, remaining, admVars,
                 dbVars, histVars>>

\* Mutant: the first source that fails aborts the orchestrator, the sources
\* still running are given up.
SourceTaskAborting(w, s) ==
  /\ wpc[w] = "ingest"
  /\ s \in pending[w]
  /\ \E o \in Outcomes(s) :
       LET job == wjob[w]
           d == DatasourceOf(job.Request, s)
       IN /\ results' = [results EXCEPT ![w] =
                           Append(@, SourceResult(job.JobID, d, s, o))]
          /\ totalChunks' = [totalChunks EXCEPT ![w] = @ + o.n]
          /\ allChunks' = [allChunks EXCEPT ![w] =
                             @ \o convertAndAddCitationToChunks(job.JobID, d, s, o.n)]
          /\ pending' = [pending EXCEPT ![w] =
                           IF o.kind = "ok" THEN @ \ {s} ELSE {}]
  /\ UNCHANGED <<funVars, poolVars, queueVars, workerVars, remaining, admVars,
                 dbVars, histVars>>

\* One per-source goroutine of processAllSources: download, decode, and the
\* critical section that appends to results, totalChunks and allChunks.
SourceTask(w, s) ==
  /\ wpc[w] = "ingest"
  /\ s \in pending[w]
  /\ \E o \in Outcomes(s) :
       LET job == wjob[w]
           d == DatasourceOf(job.Request, s)
       IN /\ results' = [results EXCEPT ![w] =
                           Append(@, SourceResult(job.JobID, d, s, o))]
          /\ totalChunks' = [totalChunks EXCEPT ![w] = @ + o.n]
          /\ allChunks' = [allChunks EXCEPT ![w] =
                             @ \o convertAndAddCitationToChunks(job.JobID, d, s, o.n)]
  /\ pending' = [pending EXCEPT ![w] = @ \ {s}]
  /\ UNCHANGED <<funVars, poolVars, queueVars, workerVars, remaining, admVars,
                 dbVars, histVars>>

\* Mutant: the chunks are grouped by source, so a job gets only the chunks
\* of the first source collected for its datasource.
chunksByFirstSource(chunks, d) ==
  LET mine == SelectSeq(chunks, LAMBDA c : c.DatasourceID = d)
  IN SelectSeq(mine, LAMBDA c : c.Source = mine[1].Source)

\* ProcessIngestionJob: chunksByDatasource, the chunks of one datasource in
\* the order they were collected.
chunksByDatasource(chunks, d) ==
  SelectSeq(chunks, LAMBDA c : c.DatasourceID = d)

\* The worker's locals once ProcessIngestionJob has returned.
FinishIngestion(w) ==
  /\ wpc' = [wpc EXCEPT ![w] = "select"]
  /\ wjob' = [wjob EXCEPT ![w] = NoJob]
  /\ results' = [results EXCEPT ![w] = <<>>]
  /\ totalChunks' = [totalChunks EXCEPT ![w] = 0]
  /\ allChunks' = [allChunks EXCEPT ![w] = <<>>]

\* Mutant: processAllSources returns without waiting for its goroutines.
sourcesJoinedAtOnce(w) == TRUE

\* processAllSources: wg.Wait() has returned, every per-source goroutine ran
\* its deferred wg.Done.
sourcesJoined(w) == pending[w] = {}

\* Mutant: one embedding job per datasource with a successful source, also
\* when that source gave no chunk.
FanInBySource(w) ==
  /\ wpc[w] = "ingest"
  /\ pending[w] = {}
  /\ IF \E i \in DOMAIN results[w] : results[w][i].Status = "success"
     THEN /\ wpc' = [wpc EXCEPT ![w] = "dispatch"]
          /\ remaining' = [remaining EXCEPT ![w] =
                             {results[w][i].DatasourceID :
                                i \in {j \in DOMAIN results[w] :
                                         results[w][j].Status = "success"}}]
          /\ UNCHANGED <<wjob, results, totalChunks, allChunks>>
     ELSE /\ FinishIngestion(w)
          /\ UNCHANGED remaining
  /\ UNCHANGED <<funVars, poolVars, queueVars, pending, admVars, dbVars, histVars>>

\* wg.Wait() returns: group the chunks by datasource; with no chunk at all
\* ProcessIngestionJob returns.
FanIn(w) ==
  /\ wpc[w] = "ingest"
  /\ sourcesJoined(w)
  /\ IF Len(allChunks[w]) > 0
     THEN /\ wpc' = [wpc EXCEPT ![w] = "dispatch"]
          /\ remaining' = [remaining EXCEPT ![w] =
                             {c.DatasourceID : c \in Range(allChunks[w])}]
          /\ UNCHANGED <<wjob, results, totalChunks, allChunks>>
     ELSE /\ FinishIngestion(w)
          /\ UNCHANGED remaining
  /\ UNCHANGED <<funVars, poolVars, queueVars, pending, admVars, dbVars, histVars>>

\* The initial embedding job of one datasource: RetryCount is the zero value.
InitialJob(jobID, d, chunks) ==
  [JobID |-> [ing |-> jobID, ds |-> d, retries |-> 0],
   Chunks |-> chunksByDatasource(chunks, d), RetryCount |-> 0]

\* Mutant: the orchestrator sends on the embedding channel with a plain,
\* blocking send: the iteration waits until the queue takes the job.
DispatchBlocking(w, d) ==
  /\ wpc[w] = "dispatch"
  /\ d \in remaining[w]
  /\ LET embJob == InitialJob(wjob[w].JobID, d, allChunks[w])
     IN /\ Enqueue(embJob)
        /\ embeddingJobs' = Append(embeddingJobs, embJob)
        /\ dispatched' = [dispatched EXCEPT ![<<embJob.JobID.ing, d>>] =
                             @ (+) SetToBag(Range(embJob.Chunks))]
  /\ UNCHANGED <<chain, faults>>
  /\ remaining' = [remaining EXCEPT ![w] = @ \ {d}]
  /\ IF remaining[w] = {d}
     THEN FinishIngestion(w)
     ELSE UNCHANGED <<wpc, wjob, results, totalChunks, allChunks>>
  /\ UNCHANGED <<funVars, poolVars, ingestionJobs, pending, admVars, dbVars>>

\* One iteration of the loop over chunksByDatasource (Go map order): Enqueue
\* the datasource's job, or drop it with a warning when the queue refuses.
Dispatch(w, d) ==
  /\ wpc[w] = "dispatch"
  /\ d \in remaining[w]
  /\ LET embJob == InitialJob(wjob[w].JobID, d, allChunks[w])
     IN IF Enqueue(embJob)
        THEN /\ embeddingJobs' = Append(embeddingJobs, embJob)
             /\ dispatched' = [dispatched EXCEPT ![<<embJob.JobID.ing, d>>] =
                                  @ (+) SetToBag(Range(embJob.Chunks))]
        ELSE UNCHANGED <<embeddingJobs, dispatched>>
  /\ UNCHANGED <<chain, faults>>
  /\ remaining' = [remaining EXCEPT ![w] = @ \ {d}]
  /\ IF remaining[w] = {d}
     THEN FinishIngestion(w)
     ELSE UNCHANGED <<wpc, wjob, results, totalChunks, allChunks>>
  /\ UNCHANGED <<funVars, poolVars, ingestionJobs, pending, admVars, dbVars>>

\* ------------------------------------------------------- embedding worker
\* The distinct non-empty datasource ids on a chunk list (the datasourceIDs
\* maps of requeueFailedChunks and persistEmbeddingsWithStatus).
DatasourceIDs(chunks) == {c.DatasourceID : c \in Range(chunks)} \ {""}

\* Mutant: COMPLETED is asked for whatever failed to embed.
MarkCompletedAlways(failedChunks) == TRUE

\* processEmbeddingJob: markCompleted := len(failedChunks) == 0
MarkCompleted(failedChunks) == Len(failedChunks) = 0

\* Mutant: off by one, a job with RetryCount 3 is retried once more.
RetriesExhaustedLate(originalJob) == originalJob.RetryCount > maxEmbeddingRetries

\* requeueFailedChunks: the retry budget test.
RetriesExhausted(originalJob) == originalJob.RetryCount >= maxEmbeddingRetries

\* Mutant: the retry job keeps the jobId of the job it retries.
RetryJobSameId(originalJob, failedChunks) ==
  [JobID |-> originalJob.JobID,
   Chunks |-> failedChunks,
   RetryCount |-> originalJob.RetryCount + 1]

\* requeueFailedChunks: the retry job.
RetryJob(originalJob, failedChunks) ==
  [JobID |-> [originalJob.JobID EXCEPT !.retries = @ + 1],
   Chunks |-> failedChunks,
   RetryCount |-> originalJob.RetryCount + 1]

\* Mutant: the COMPLETED update is issued before the batch insert, so it is
\* written although the insert then fails.
persistStatusFirst(chunks, markCompleted, insertOk, updateOk) ==
  LET done == IF markCompleted /\ updateOk THEN DatasourceIDs(chunks) ELSE {}
  IN IF ~insertOk
     THEN [rows |-> <<>>, completed |-> done, err |-> TRUE]
     ELSE [rows |-> chunks, completed |-> done,
           err |-> markCompleted /\ DatasourceIDs(chunks) # {} /\ ~updateOk]

\* persistEmbeddingsWithStatus(successJob, markCompleted): the batch insert,
\* then the COMPLETED update. insertOk and updateOk are the storage's answers.
\* Every chunk passed in has a 768-value embedding (EmbedText returns an
\* error otherwise), so no chunk is skipped and embeddingData is not empty.
\*   rows: the rows committed; completed: the ids set COMPLETED; err: the
\*   error returned.
persistEmbeddingsWithStatus(chunks, markCompleted, insertOk, updateOk) ==
  IF ~insertOk
  THEN [rows |-> <<>>, completed |-> {}, err |-> TRUE]
  ELSE IF markCompleted /\ DatasourceIDs(chunks) # {}
       THEN IF updateOk
            THEN [rows |-> chunks, completed |-> DatasourceIDs(chunks), err |-> FALSE]
            ELSE [rows |-> chunks, completed |-> {}, err |-> TRUE]
       ELSE [rows |-> chunks, completed |-> {}, err |-> FALSE]

\* Mutant: an exhausted retry budget only drops the chunks, no FAILED update.
requeueDropExhausted(originalJob, failedChunks, updateOk) ==
  LET ids == IF db /\ updateOk THEN DatasourceIDs(failedChunks) ELSE {}
      retryJob == RetryJob(originalJob, failedChunks)
  IN IF RetriesExhausted(originalJob)
     THEN [queue |-> embeddingJobs, failed |-> {}, retry |-> {}]
     ELSE IF Enqueue(retryJob)
          THEN [queue |-> Append(embeddingJobs, retryJob), failed |-> {},
                retry |-> {retryJob}]
          ELSE [queue |-> embeddingJobs, failed |-> ids, retry |-> {}]

\* Mutant: a retry job the queue refuses is only dropped, no FAILED update.
requeueDropRefused(originalJob, failedChunks, updateOk) ==
  LET ids == IF db /\ updateOk THEN DatasourceIDs(failedChunks) ELSE {}
      retryJob == RetryJob(originalJob, failedChunks)
  IN IF RetriesExhausted(originalJob)
     THEN [queue |-> embeddingJobs, failed |-> ids, retry |-> {}]
     ELSE IF Enqueue(retryJob)
          THEN [queue |-> Append(embeddingJobs, retryJob), failed |-> {},
                retry |-> {retryJob}]
          ELSE [queue |-> embeddingJobs, failed |-> {}, retry |-> {}]

\* Mutant: the datasources are marked FAILED on every requeue, also when the
\* retry job was accepted.
requeueAlwaysFailed(originalJob, failedChunks, updateOk) ==
  LET ids == IF db /\ updateOk THEN DatasourceIDs(failedChunks) ELSE {}
      retryJob == RetryJob(originalJob, failedChunks)
  IN IF RetriesExhausted(originalJob)
     THEN [queue |-> embeddingJobs, failed |-> ids, retry |-> {}]
     ELSE IF Enqueue(retryJob)
          THEN [queue |-> Append(embeddingJobs, retryJob), failed |-> ids,
                retry |-> {retryJob}]
          ELSE [queue |-> embeddingJobs, failed |-> ids, retry |-> {}]

\* requeueFailedChunks(originalJob, failedChunks): updateOk is the storage's
\* answer to the FAILED update.
\*   queue: the embedding channel afterwards; failed: the ids set FAILED;
\*   retry: the retry job the channel accepted, if any.
requeueFailedChunks(originalJob, failedChunks, updateOk) ==
  LET ids == IF db /\ updateOk THEN DatasourceIDs(failedChunks) ELSE {}
      retryJob == RetryJob(originalJob, failedChunks)
  IN IF RetriesExhausted(originalJob)
     THEN [queue |-> embeddingJobs, failed |-> ids, retry |-> {}]
     ELSE IF Enqueue(retryJob)
          THEN [queue |-> Append(embeddingJobs, retryJob), failed |-> {},
                retry |-> {retryJob}]
          ELSE [queue |-> embeddingJobs, failed |-> ids, retry |-> {}]

\* Mutant: after a persist error only the chunks that failed to embed are
\* requeued.
chunksToRequeueFailedOnly(job, failedChunks, persistErr) == failedChunks

\* processEmbeddingJob: the chunks handed to requeueFailedChunks, job.Chunks
\* after a persist error, failedChunks otherwise.
chunksToRequeue(job, failedChunks, persistErr) ==
  IF persistErr THEN job.Chunks ELSE failedChunks

\* Mutant: the insert replaces the rows stored before it.
BatchInsertEmbeddingsReplacing(table, rows) ==
  IF rows = <<>> THEN table ELSE SetToBag(Range(rows))

\* storage gateway: batchInsertEmbeddings, all rows of the call or none.
BatchInsertEmbeddings(table, rows) == table (+) SetToBag(Range(rows))

\* Mutant: the update statement has no filter on the ids.
UpdateDataSourceStatusAll(table, ids, status) ==
  [d \in DOMAIN table |-> IF ids # {} THEN status ELSE table[d]]

\* storage gateway: updateDataSourceStatus, one statement over the ids.
UpdateDataSourceStatus(table, ids, status) ==
  [d \in DOMAIN table |-> IF d \in ids THEN status ELSE table[d]]

\* History of the statuses written for the datasources of one ingestion job.
Written(log, ing, ids, status) ==
  [k \in DOMAIN log |->
     IF k[1] = ing /\ k[2] \in ids THEN Append(log[k], status) ELSE log[k]]

\* Mutant: the job is processed whether or not an embedder is configured.
embedderMissingIgnored == FALSE

\* processEmbeddingJob: if wp.embedder == nil, log and return.
embedderMissing == ~embedder

\* Mutant: the worker reads the head of the channel and leaves it queued.
TakeEmbeddingPeek(w) ==
  /\ wpc[w] = "select"
  /\ embeddingJobs # <<>>
  /\ UNCHANGED embeddingJobs
  /\ wpc' = [wpc EXCEPT ![w] = "embed"]
  /\ wjob' = [wjob EXCEPT ![w] = Head(embeddingJobs)]
  /\ UNCHANGED <<funVars, poolVars, ingestionJobs, orchVars, admVars, dbVars, histVars>>

\* The worker loop's case job := <-wp.embeddingJobs.
TakeEmbedding(w) ==
  /\ wpc[w] = "select"
  /\ embeddingJobs # <<>>
  /\ embeddingJobs' = Tail(embeddingJobs)
  /\ wpc' = [wpc EXCEPT ![w] = "embed"]
  /\ wjob' = [wjob EXCEPT ![w] = Head(embeddingJobs)]
  /\ UNCHANGED <<funVars, poolVars, ingestionJobs, orchVars, admVars, dbVars, histVars>>

\* WorkerPool.processEmbeddingJob, from the embedder check to its return.
\* failedIdx: the chunks whose EmbedText call returned an error.
processEmbeddingJob(w) ==
  /\ wpc[w] = "embed"
  /\ wpc' = [wpc EXCEPT ![w] = "select"]
  /\ wjob' = [wjob EXCEPT ![w] = NoJob]
  /\ IF embedderMissing
     THEN UNCHANGED <<embeddingJobs, dbVars, histVars>>
     ELSE \E failedIdx \in SUBSET DOMAIN wjob[w].Chunks,
             insertOk \in BOOLEAN, completedOk \in BOOLEAN, failedOk \in BOOLEAN :
       LET job == wjob[w]
           key == <<job.JobID.ing, job.JobID.ds>>
           successfulChunks == SelectIdx(job.Chunks, DOMAIN job.Chunks \ failedIdx)
           failedChunks == SelectIdx(job.Chunks, failedIdx)
           persist == db /\ Len(successfulChunks) > 0
           markCompleted == MarkCompleted(failedChunks)
           p == IF persist
                THEN persistEmbeddingsWithStatus(successfulChunks, markCompleted,
                                                 insertOk, completedOk)
                ELSE [rows |-> <<>>, completed |-> {}, err |-> FALSE]
           toRetry == chunksToRequeue(job, failedChunks, p.err)
           r == IF p.err \/ Len(failedChunks) > 0
                THEN requeueFailedChunks(job, toRetry, failedOk)
                ELSE [queue |-> embeddingJobs, failed |-> {}, retry |-> {}]
           asksFailed == (p.err \/ Len(failedChunks) > 0) /\ db
                           /\ DatasourceIDs(toRetry) # {}
                           /\ (RetriesExhausted(job) \/ ~Enqueue(RetryJob(job, toRetry)))
       IN \* each storage answer is drawn only where the call is made
          /\ (~persist => insertOk)
          /\ (~(persist /\ insertOk /\ markCompleted) => completedOk)
          /\ (~asksFailed => failedOk)
          /\ Embeddings' = BatchInsertEmbeddings(Embeddings, p.rows)
          /\ DataSource' = UpdateDataSourceStatus(
                             UpdateDataSourceStatus(DataSource, p.completed, "COMPLETED"),
                             r.failed, "FAILED")
          /\ statusWrites' = Written(Written(statusWrites, job.JobID.ing,
                                             p.completed, "COMPLETED"),
                                     job.JobID.ing, r.failed, "FAILED")
          /\ embeddingJobs' = r.queue
          /\ chain' = [chain EXCEPT ![key] =
               [embedded |-> @.embedded \/ Len(successfulChunks) > 0,
                statusErr |-> @.statusErr \/ ~completedOk \/ ~failedOk]]
          /\ LET faulty == failedIdx # {} \/ ~insertOk \/ ~completedOk \/ ~failedOk
             IN /\ faulty => faults < MaxFaults
                /\ faults' = IF faulty THEN faults + 1 ELSE faults
          /\ dispatched' = [dispatched EXCEPT ![key] =
               @ (+) SetToBag(UNION {Range(j.Chunks) : j \in r.retry})]
  /\ UNCHANGED <<funVars, poolVars, ingestionJobs, orchVars, admVars>>

\* ------------------------------------------------------------------- Spec
Next ==
  \/ SetProcessFunc
  \/ Start
  \/ Stop
  \/ StopReturn
  \/ \E req \in RequestsAt(calls) : Process(req)
  \/ \E w \in Workers : WorkerQuit(w)
  \/ \E w \in Workers : TakeIngestion(w)
  \/ \E w \in Workers : \E s \in pending[w] : SourceTask(w, s)
  \/ \E w \in Workers : FanIn(w)
  \/ \E w \in Workers : \E d \in remaining[w] : Dispatch(w, d)
  \/ \E w \in Workers : TakeEmbedding(w)
  \/ \E w \in Workers : processEmbeddingJob(w)

Spec == Init /\ [][Next]_vars

\* The pool with an embedder and storage configured and Stop never called,
\* its goroutines scheduled fairly.
LiveInit == Init /\ embedder /\ db

LiveNext ==
  \/ SetProcessFunc
  \/ Start
  \/ \E req \in RequestsAt(calls) : Process(req)
  \/ \E w \in Workers : TakeIngestion(w)
  \/ \E w \in Workers : \E s \in pending[w] : SourceTask(w, s)
  \/ \E w \in Workers : FanIn(w)
  \/ \E w \in Workers : \E d \in remaining[w] : Dispatch(w, d)
  \/ \E w \in Workers : TakeEmbedding(w)
  \/ \E w \in Workers : processEmbeddingJob(w)

\* The steps of worker goroutine w.
WorkerStep(w) ==
  \/ TakeIngestion(w)
  \/ \E s \in pending[w] : SourceTask(w, s)
  \/ FanIn(w)
  \/ \E d \in remaining[w] : Dispatch(w, d)
  \/ TakeEmbedding(w)
  \/ processEmbeddingJob(w)

Fairness == \A w \in Workers : WF_vars(WorkerStep(w))

LiveSpec == LiveInit /\ [][LiveNext]_vars /\ Fairness

\* The steps of worker goroutine w, its quit case included.
WorkerLoop(w) == WorkerStep(w) \/ WorkerQuit(w)

\* Every worker goroutine is scheduled fairly. Nothing is assumed about which
\* ready case a select takes.
StopFairness == \A w \in Workers : WF_vars(WorkerLoop(w))

\* The pipeline, Stop included, with a caller that submits one request over
\* two datasources.
StopNext ==
  \/ SetProcessFunc
  \/ Start
  \/ Stop
  \/ StopReturn
  \/ calls = <<>> /\ Process(ReqMixed)
  \/ \E w \in Workers : WorkerQuit(w)
  \/ \E w \in Workers : TakeIngestion(w)
  \/ \E w \in Workers : \E s \in pending[w] : SourceTask(w, s)
  \/ \E w \in Workers : FanIn(w)
  \/ \E w \in Workers : \E d \in remaining[w] : Dispatch(w, d)
  \/ \E w \in Workers : TakeEmbedding(w)
  \/ \E w \in Workers : processEmbeddingJob(w)

StopSpec == Init /\ [][StopNext]_vars /\ StopFairness

\* --------------------------------------------------------------- citation
\* types.SourceType, and one value outside the declared constants.
SourceTypes == {"website", "pdf", "text", "csv", "qa", "json", "other"}

\* ProcessedContent.Metadata: a map over the keys the citation reads, each
\* present or not, a present value empty or not.
MetadataKeys == {"url", "filename"}
Metadatas == UNION {[K -> {"", "x"}] : K \in SUBSET MetadataKeys}

\* types.ProcessedContent. The topic is never empty: the processors set it
\* to the url, the file name or the question, which requests must carry, and
\* NewTextProcessor replaces an empty topic.
Contents ==
  [SourceType : SourceTypes, Metadata : Metadatas, Topic : {"t1", "t2"},
   Content : {"c1", "c2"}]

\* Mutant: a Q&A pair is cited by its topic, the question.
determineCitationByTopic(content) ==
  LET m == content.Metadata
  IN CASE content.SourceType = "website" ->
            IF "url" \in DOMAIN m /\ m["url"] # "" THEN m["url"] ELSE content.Topic
       [] content.SourceType = "qa" -> content.Topic
       [] content.SourceType \in {"pdf", "csv", "text", "json"} ->
            IF "filename" \in DOMAIN m /\ m["filename"] # ""
            THEN m["filename"] ELSE content.Topic
       [] OTHER -> content.Topic

\* Mutant: a source of no declared type is cited by its text.
determineCitationByContent(content) ==
  LET m == content.Metadata
  IN CASE content.SourceType = "website" ->
            IF "url" \in DOMAIN m /\ m["url"] # "" THEN m["url"] ELSE content.Topic
       [] content.SourceType = "qa" -> "QnA"
       [] content.SourceType \in {"pdf", "csv", "text", "json"} ->
            IF "filename" \in DOMAIN m /\ m["filename"] # ""
            THEN m["filename"] ELSE content.Topic
       [] OTHER -> content.Content

\* determineCitation
determineCitation(content) ==
  LET m == content.Metadata
  IN CASE content.SourceType = "website" ->
            IF "url" \in DOMAIN m /\ m["url"] # "" THEN m["url"] ELSE content.Topic
       [] content.SourceType = "qa" -> "QnA"
       [] content.SourceType \in {"pdf", "csv", "text", "json"} ->
            IF "filename" \in DOMAIN m /\ m["filename"] # ""
            THEN m["filename"] ELSE content.Topic
       [] OTHER -> content.Topic

\* convertAndAddCitationToChunks: the metadata every chunk of a content gets.
chunkMetadata(content, datasourceID) ==
  [citation |-> determineCitation(content), sourceType |-> content.SourceType,
   topic |-> content.Topic, datasourceId |-> datasourceID]

\* persistEmbeddingsWithStatus: the Citation of the row built for a chunk, a
\* pointer that stays nil unless the metadata holds a non-empty citation.
EmbeddingDataCitation(metadata) ==
  IF "citation" \in DOMAIN metadata /\ metadata["citation"] # ""
  THEN [nil |-> FALSE, value |-> metadata["citation"]]
  ELSE [nil |-> TRUE, value |-> ""]

\* Two decoded contents, each given its chunk metadata and then its row.
CiteInit ==
  /\ NewPipeline /\ embedder /\ db
  /\ input \in Contents \X Contents
  /\ output = NoJob

Cite ==
  /\ output = NoJob
  /\ output' = [chunks |-> [i \in 1..2 |-> chunkMetadata(input[i], "d1")],
                rows |-> <<>>]
  /\ UNCHANGED <<pipeVars, input>>

CiteRows ==
  /\ output # NoJob
  /\ output.rows = <<>>
  /\ output' = [output EXCEPT
                  !.rows = [i \in 1..2 |-> EmbeddingDataCitation(output.chunks[i])]]
  /\ UNCHANGED <<pipeVars, input>>

CiteNext == Cite \/ CiteRows

CiteSpec == CiteInit /\ [][CiteNext]_vars

\* ---------------------------------------------------------------- chunker
\* A text is a sequence of runes, each a one-character string.
Words == {<<"a">>, <<"b", "b">>, <<"b", "b", "b">>}
Gaps == {<<" ">>, <<"\n">>}

\* Texts of up to MaxWords words, single gaps between them, and possibly a
\* blank before and after; the empty text and the blank ones among them.
RECURSIVE Bodies(_)
Bodies(n) ==
  IF n = 0 THEN {<<>>}
  ELSE IF n = 1 THEN Words
  ELSE {b \o g \o w : b \in Bodies(n - 1), g \in Gaps, w \in Words}

Texts ==
  {pre \o b \o post :
     pre \in {<<>>, <<" ">>}, post \in {<<>>, <<" ">>},
     b \in UNION {Bodies(n) : n \in 0..MaxWords}}

\* unicode.IsSpace on the runes of the texts
IsSpace(r) == r \in {" ", "\n"}

\* strings.TrimSpace
TrimSpace(s) ==
  LET keep == {i \in DOMAIN s : ~IsSpace(s[i])}
  IN IF keep = {} THEN <<>>
     ELSE SubSeq(s, CHOOSE i \in keep : \A j \in keep : i <= j,
                    CHOOSE i \in keep : \A j \in keep : i >= j)

\* The positions at which sep occurs in s.
Occurrences(s, sep) ==
  {i \in 1..(Len(s) - Len(sep) + 1) : SubSeq(s, i, i + Len(sep) - 1) = sep}

\* strings.Contains, for a non-empty sep
Contains(s, sep) == Occurrences(s, sep) # {}

\* strings.HasPrefix
HasPrefix(s, prefix) ==
  Len(prefix) <= Len(s) /\ SubSeq(s, 1, Len(prefix)) = prefix

\* strings.LastIndex, 0-based, -1 when sep does not occur
LastIndex(s, sep) ==
  IF Occurrences(s, sep) = {} THEN -1
  ELSE (CHOOSE i \in Occurrences(s, sep) : \A j \in Occurrences(s, sep) : i >= j) - 1

\* strings.Split, for a non-empty sep
RECURSIVE Split(_, _)
Split(s, sep) ==
  IF Occurrences(s, sep) = {} THEN <<s>>
  ELSE LET i == CHOOSE i \in Occurrences(s, sep) : \A j \in Occurrences(s, sep) : i <= j
       IN <<SubSeq(s, 1, i - 1)>> \o Split(SubSeq(s, i + Len(sep), Len(s)), sep)

\* NewChunker: the separators, coarsest first.
Separators ==
  << <<"\n", "\n">>, <<"\n">>, <<".", " ">>, <<"?", " ">>, <<"!", " ">>,
     <<";", " ">>, <<",", " ">>, <<" ">> >>

\* NewChunker: the configuration kept for the sizes asked for.
NewChunker(chunkSize, chunkOverlap) ==
  LET size == IF chunkSize <= 0 THEN defaultChunkSize ELSE chunkSize
      over == IF chunkOverlap < 0 THEN 0 ELSE chunkOverlap
  IN [ChunkSize |-> size,
      ChunkOverlap |-> IF over >= size THEN size \div 4 ELSE over,
      Separators |-> Separators]

\* Chunker.splitBySize: windows of ChunkSize runes, ChunkSize - ChunkOverlap
\* apart, each trimmed, the blank ones dropped.
RECURSIVE splitFrom(_, _, _)
splitFrom(c, runes, i) ==
  IF i >= Len(runes) THEN <<>>
  ELSE LET end == IF i + c.ChunkSize > Len(runes) THEN Len(runes) ELSE i + c.ChunkSize
           chunk == TrimSpace(SubSeq(runes, i + 1, end))
           step == IF c.ChunkSize - c.ChunkOverlap <= 0
                   THEN c.ChunkSize ELSE c.ChunkSize - c.ChunkOverlap
       IN (IF chunk # <<>> THEN <<chunk>> ELSE <<>>) \o splitFrom(c, runes, i + step)

splitBySize(c, text) == splitFrom(c, text, 0)

\* Chunker.applyOverlap: each chunk but the first gets the end of the chunk
\* before it, cut at its last blank, in front.
applyOverlap(c, chunks) ==
  IF Len(chunks) <= 1 THEN chunks
  ELSE [i \in 1..Len(chunks) |->
         IF i = 1 THEN chunks[1]
         ELSE LET prevRunes == chunks[i - 1]
                  overlapStart == IF Len(prevRunes) - c.ChunkOverlap < 0
                                  THEN 0 ELSE Len(prevRunes) - c.ChunkOverlap
                  tail == SubSeq(prevRunes, overlapStart + 1, Len(prevRunes))
                  idx == LastIndex(tail, <<" ">>)
                  overlap == IF idx > 0 THEN SubSeq(tail, idx + 2, Len(tail)) ELSE tail
              IN IF ~HasPrefix(chunks[i], overlap) /\ overlap # <<>>
                 THEN overlap \o <<" ">> \o chunks[i]
                 ELSE chunks[i]]

\* Chunker.recursiveSplit: the first separator of the list that the text holds.
bestSeparator(text, separators) ==
  LET hits == {j \in DOMAIN separators : Contains(text, separators[j])}
  IN IF hits = {} THEN 0 ELSE CHOOSE j \in hits : \A k \in hits : j <= k

\* Chunker.recursiveSplit. The loop over the parts is the fold partsFrom,
\* carrying the chunks saved so far and the chunk being filled.
RECURSIVE recursiveSplit(_, _, _)
RECURSIVE partsFrom(_, _, _, _, _, _, _)
partsFrom(c, separators, best, parts, i, chunks, currentChunk) ==
  IF i > Len(parts)
  THEN IF currentChunk # <<>> /\ TrimSpace(currentChunk) # <<>>
       THEN Append(chunks, TrimSpace(currentChunk))
       ELSE chunks
  ELSE LET part == TrimSpace(parts[i])
           bestSep == separators[best]
           testContent == IF currentChunk # <<>>
                          THEN currentChunk \o bestSep \o part ELSE part
           saved == IF currentChunk # <<>> /\ TrimSpace(currentChunk) # <<>>
                    THEN Append(chunks, TrimSpace(currentChunk)) ELSE chunks
           nextSeps == IF best + 1 <= Len(separators)
                       THEN SubSeq(separators, best + 1, Len(separators))
                       ELSE separators
       IN IF part = <<>>
          THEN partsFrom(c, separators, best, parts, i + 1, chunks, currentChunk)
          ELSE IF Len(testContent) <= c.ChunkSize
          THEN partsFrom(c, separators, best, parts, i + 1, chunks, testContent)
          ELSE IF Len(part) > c.ChunkSize
          THEN partsFrom(c, separators, best, parts, i + 1,
                         saved \o recursiveSplit(c, part, nextSeps), <<>>)
          ELSE partsFrom(c, separators, best, parts, i + 1, saved, part)

recursiveSplit(c, text, separators) ==
  IF Len(text) <= c.ChunkSize
  THEN IF TrimSpace(text) # <<>> THEN <<TrimSpace(text)>> ELSE <<>>
  ELSE LET best == bestSeparator(text, separators)
       IN IF best = 0
          THEN splitBySize(c, text)
          ELSE LET chunks == partsFrom(c, separators, best,
                                       Split(text, separators[best]), 1, <<>>, <<>>)
               IN IF c.ChunkOverlap > 0 /\ Len(chunks) > 1
                  THEN applyOverlap(c, chunks) ELSE chunks

\* ChunkText returning a chunk-sized text as it came, blanks around it kept.
ChunkTextNoTrim(c, text) ==
  IF text = <<>> THEN <<>>
  ELSE IF Len(TrimSpace(text)) <= c.ChunkSize
       THEN <<text>>
       ELSE recursiveSplit(c, TrimSpace(text), c.Separators)

\* Chunker.ChunkText; a nil slice is the empty sequence.
ChunkText(c, text) ==
  IF text = <<>> THEN <<>>
  ELSE IF Len(TrimSpace(text)) <= c.ChunkSize
       THEN <<TrimSpace(text)>>
       ELSE recursiveSplit(c, TrimSpace(text), c.Separators)

\* A text and the sizes a chunker is asked for; the text is chunked, then
\* the first chunk returned is chunked again.
ChunkInit ==
  /\ NewPipeline /\ embedder /\ db
  /\ input \in [text : Texts, chunkSize : 0..MaxChunkSize,
                chunkOverlap : (0 - 1)..MaxChunkSize]
  /\ output = NoJob

Chunk ==
  /\ output = NoJob
  /\ output' = [chunks |-> ChunkText(NewChunker(input.chunkSize, input.chunkOverlap),
                                     input.text),
                again |-> <<>>, rechunked |-> FALSE]
  /\ UNCHANGED <<pipeVars, input>>

Rechunk ==
  /\ output # NoJob
  /\ ~output.rechunked
  /\ output.chunks # <<>>
  /\ output' = [output EXCEPT
                  !.again = ChunkText(NewChunker(input.chunkSize, input.chunkOverlap),
                                      output.chunks[1]),
                  !.rechunked = TRUE]
  /\ UNCHANGED <<pipeVars, input>>

ChunkNext == Chunk \/ Rechunk

ChunkSpec == ChunkInit /\ [][ChunkNext]_vars

\* --------------------------------------------------------- decoder factory
\* File names and content types as sequences of runes.
Stems == {<<"r", "e", "p", "o", "r", "t">>, <<"A">>}
Suffixes ==
  {<<>>,
   <<".", "p", "d", "f">>,
   <<".", "P", "D", "F">>,
   <<".", "c", "s", "v">>,
   <<".", "m", "d">>,
   <<".", "M", "D">>,
   <<".", "m", "a", "r", "k", "d", "o", "w", "n">>,
   <<".", "t", "x", "t">>,
   <<".", "d", "o", "c", "x">>,
   <<".", "p", "d", "f", ".", "m", "d">>}
Filenames == {st \o su : st \in Stems, su \in Suffixes}
ContentTypes ==
  {<<>>,
   <<"a", "p", "p", "l", "i", "c", "a", "t", "i", "o", "n", "/", "p", "d", "f">>,
   <<"t", "e", "x", "t", "/", "p", "l", "a", "i", "n">>,
   <<"t", "e", "x", "t", "/", "c", "s", "v">>,
   <<"a", "p", "p", "l", "i", "c", "a", "t", "i", "o", "n", "/", "c", "s", "v">>,
   <<"a", "p", "p", "l", "i", "c", "a", "t", "i", "o", "n", "/", "j", "s", "o", "n">>,
   <<"t", "e", "x", "t", "/", "m", "a", "r", "k", "d", "o", "w", "n">>,
   <<"a", "p", "p", "l", "i", "c", "a", "t", "i", "o", "n", "/", "m", "s", "w", "o", "r", "d">>,
   <<"T", "E", "X", "T", "/", "P", "L", "A", "I", "N">>}

UpperRunes == <<"A", "B", "C", "D", "E", "F", "G", "H", "I", "J", "K", "L", "M", "N", "O", "P", "Q", "R", "S", "T", "U", "V", "W", "X", "Y", "Z">>
LowerRunes == <<"a", "b", "c", "d", "e", "f", "g", "h", "i", "j", "k", "l", "m", "n", "o", "p", "q", "r", "s", "t", "u", "v", "w", "x", "y", "z">>

\* strings.ToLower on the runes of the file names
ToLower(s) ==
  [i \in DOMAIN s |->
     IF \E k \in DOMAIN UpperRunes : UpperRunes[k] = s[i]
     THEN LowerRunes[CHOOSE k \in DOMAIN UpperRunes : UpperRunes[k] = s[i]]
     ELSE s[i]]

\* strings.HasSuffix
HasSuffix(s, suffix) ==
  Len(suffix) <= Len(s) /\ SubSeq(s, Len(s) - Len(suffix) + 1, Len(s)) = suffix

\* Mutant: the text rule is tried before the markdown rule.
CreateDocumentProcessorTextFirst(filename, contentType) ==
  LET name == ToLower(filename)
  IN CASE Contains(contentType, <<"p", "d", "f">>) \/ HasSuffix(name, <<".", "p", "d", "f">>) -> "PDFProcessor"
       [] Contains(contentType, <<"c", "s", "v">>) \/ HasSuffix(name, <<".", "c", "s", "v">>) -> "CSVProcessor"
       [] Contains(contentType, <<"t", "e", "x", "t">>) \/ HasSuffix(name, <<".", "t", "x", "t">>) -> "TextFileProcessor"
       [] HasSuffix(name, <<".", "m", "d">>) \/ HasSuffix(name, <<".", "m", "a", "r", "k", "d", "o", "w", "n">>) -> "MarkdownProcessor"
       [] OTHER -> "TextFileProcessor"

\* Factory.CreateDocumentProcessorFromBytes: the processor built. A Go
\* switch takes the first case that holds; so does the test below, written
\* as nested alternatives.
CreateDocumentProcessorFromBytes(filename, contentType) ==
  LET name == ToLower(filename)
  IN IF Contains(contentType, <<"p", "d", "f">>) \/ HasSuffix(name, <<".", "p", "d", "f">>)
     THEN "PDFProcessor"
     ELSE IF Contains(contentType, <<"c", "s", "v">>) \/ HasSuffix(name, <<".", "c", "s", "v">>)
     THEN "CSVProcessor"
     ELSE IF HasSuffix(name, <<".", "m", "d">>) \/ HasSuffix(name, <<".", "m", "a", "r", "k", "d", "o", "w", "n">>)
     THEN "MarkdownProcessor"
     ELSE IF Contains(contentType, <<"t", "e", "x", "t">>) \/ HasSuffix(name, <<".", "t", "x", "t">>)
     THEN "TextFileProcessor"
     ELSE "TextFileProcessor"

\* A downloaded document, then the processor the factory builds for it.
FactoryInit ==
  /\ NewPipeline /\ embedder /\ db
  /\ input \in [filename : Filenames, contentType : ContentTypes]
  /\ output = NoJob

CreateDocumentProcessor ==
  /\ output = NoJob
  /\ output' = [processor |->
                  CreateDocumentProcessorFromBytes(input.filename, input.contentType)]
  /\ UNCHANGED <<pipeVars, input>>

FactorySpec == FactoryInit /\ [][CreateDocumentProcessor]_vars

\* ---------------------------------------------------------- queue capacity
\* Mutant: 100 is the least capacity, not only the fallback.
queueCapacityFloored(cfg) ==
  IF cfg.BatchSize * cfg.WorkerCount < defaultQueueCapacity
  THEN defaultQueueCapacity ELSE cfg.BatchSize * cfg.WorkerCount

\* RegisterRoutes: the capacity handed to NewWorkerPool.
queueCapacity(cfg) ==
  IF cfg.BatchSize * cfg.WorkerCount <= 0
  THEN defaultQueueCapacity ELSE cfg.BatchSize * cfg.WorkerCount

\* NewWorkerPool: the worker count kept and the buffer sizes of the two
\* channels made.
NewWorkerPool(numWorkers, capacity) ==
  [numWorkers |-> IF numWorkers <= 0 THEN 1 ELSE numWorkers,
   embeddingJobs |-> IF capacity <= 0 THEN defaultQueueCapacity ELSE capacity,
   ingestionJobs |-> IF capacity <= 0 THEN defaultQueueCapacity ELSE capacity]

\* A configuration, then the pool RegisterRoutes builds from it.
RoutesInit ==
  /\ NewPipeline /\ embedder /\ db
  /\ input \in [WorkerCount : (0 - 1)..MaxConfig, BatchSize : (0 - 1)..MaxConfig]
  /\ output = NoJob

RegisterRoutes ==
  /\ output = NoJob
  /\ output' = NewWorkerPool(input.WorkerCount, queueCapacity(input))
  /\ UNCHANGED <<pipeVars, input>>

RoutesSpec == RoutesInit /\ [][RegisterRoutes]_vars

\* ------------------------------------------------------------- EmbedBatch
\* One call of GeminiEmbedder.EmbedBatch. input.texts is len(texts); output
\* holds the caller's position (pc), its loop index i, the number of tokens
\* in the buffer of sem, whether ctx is done, the position of the goroutine
\* of each text ("none" before its go statement, "spawned", "inflight" inside
\* EmbedText, "done" once errors[idx] is written, "released" after <-sem),
\* the entries of errors, and what the call returned.
TextIds == 1..input.texts

\* Mutant: the buffer of sem takes one token more than its capacity.
semHasRoomOneMore(n) == n <= semCapacity

\* A send on sem can proceed: its buffer of semCapacity tokens is not full.
semHasRoom(n) == n < semCapacity

BatchInit ==
  /\ NewPipeline /\ embedder /\ db
  /\ input \in [texts : 0..MaxTexts]
  /\ output = [pc |-> "entry", i |-> 0, sem |-> 0, waited |-> 0,
               ctxDone |-> FALSE,
               call |-> [t \in 1..MaxTexts |-> "none"],
               errors |-> [t \in 1..MaxTexts |-> FALSE],
               ret |-> "none"]

\* if len(texts) == 0 { return nil, error }
BatchEnter ==
  /\ output.pc = "entry"
  /\ output' = IF input.texts = 0
               THEN [output EXCEPT !.pc = "returned", !.ret = "no texts provided"]
               ELSE [output EXCEPT !.pc = "loop"]
  /\ UNCHANGED <<pipeVars, input>>

\* The caller's context is cancelled or times out.
BatchCancel ==
  /\ output.pc \in {"loop", "wait"}
  /\ ~output.ctxDone
  /\ output' = [output EXCEPT !.ctxDone = TRUE]
  /\ UNCHANGED <<pipeVars, input>>

\* One pass of the for loop over texts: the select takes a ready case,
\* either ctx.Done, which returns, or the send on sem, which is followed by
\* the go statement; after the last text the caller goes on to wait.
BatchLoop ==
  /\ output.pc = "loop"
  /\ IF output.i = input.texts
     THEN output' = [output EXCEPT !.pc = "wait"]
     ELSE \/ /\ output.ctxDone
             /\ output' = [output EXCEPT !.pc = "returned", !.ret = "ctx.Err"]
          \/ /\ semHasRoom(output.sem)
             /\ output' = [output EXCEPT !.sem = @ + 1, !.i = @ + 1,
                                         !.call[output.i + 1] = "spawned"]
  /\ UNCHANGED <<pipeVars, input>>

\* A goroutine enters g.EmbedText.
EmbedTextCall(t) ==
  /\ output.call[t] = "spawned"
  /\ output' = [output EXCEPT !.call[t] = "inflight"]
  /\ UNCHANGED <<pipeVars, input>>

\* g.EmbedText returns, with an embedding or an error (always an error
\* possible, after a cancellation too), and the goroutine stores both.
EmbedTextReturn(t) ==
  /\ output.call[t] = "inflight"
  /\ \E err \in BOOLEAN :
       output' = [output EXCEPT !.call[t] = "done", !.errors[t] = err]
  /\ UNCHANGED <<pipeVars, input>>

\* The goroutine's deferred <-sem.
SemRelease(t) ==
  /\ output.call[t] = "done"
  /\ output.sem > 0
  /\ output' = [output EXCEPT !.call[t] = "released", !.sem = @ - 1]
  /\ UNCHANGED <<pipeVars, input>>

\* One pass of the waiting loop: a send on sem, cap(sem) times in all.
BatchWait ==
  /\ output.pc = "wait"
  /\ IF output.waited = semCapacity
     THEN output' = [output EXCEPT !.pc = "check"]
     ELSE /\ semHasRoom(output.sem)
          /\ output' = [output EXCEPT !.sem = @ + 1, !.waited = @ + 1]
  /\ UNCHANGED <<pipeVars, input>>

\* The loop over errors and the return.
BatchReturn ==
  /\ output.pc = "check"
  /\ output' = [output EXCEPT
                  !.pc = "returned",
                  !.ret = IF \E t \in TextIds : output.errors[t]
                          THEN "failed to embed text" ELSE "embeddings"]
  /\ UNCHANGED <<pipeVars, input>>

BatchNext ==
  \/ BatchEnter
  \/ BatchCancel
  \/ BatchLoop
  \/ \E t \in TextIds : EmbedTextCall(t)
  \/ \E t \in TextIds : EmbedTextReturn(t)
  \/ \E t \in TextIds : SemRelease(t)
  \/ BatchWait
  \/ BatchReturn

BatchSpec == BatchInit /\ [][BatchNext]_vars

\* The EmbedText calls in flight.
InFlight == {t \in TextIds : output.call[t] = "inflight"}

\* ------------------------------------------------------ derived notions
\* The retry chain an embedding job belongs to: ingestion job and datasource.
JobKey(job) == <<job.JobID.ing, job.JobID.ds>>

\* The embedding jobs of chain k that are queued or in a worker's hands.
LiveJobsIn(queue, pc, held, k) ==
  {queue[i] : i \in {j \in DOMAIN queue : JobKey(queue[j]) = k}}
    \cup {held[w] : w \in {v \in Workers : pc[v] = "embed" /\ JobKey(held[v]) = k}}

LiveJobs(k) == LiveJobsIn(embeddingJobs, wpc, wjob, k)

\* The chunks the ingestion job produced for the datasource of chain k.
Produced(k) == BagToSet(dispatched[k])

\* The committed rows of one chunk.
Rows(c) == CopiesIn(c, Embeddings)

WrittenTo(k) == Range(statusWrites[k])

Count(seq, x) == Cardinality({i \in DOMAIN seq : seq[i] = x})

\* A worker w finishes processEmbeddingJob on a job of chain k in this step.
Finishes(w, k) ==
  wpc[w] = "embed" /\ wpc'[w] = "select" /\ JobKey(wjob[w]) = k

\* ----------------------------------------------------------------- claims
\* C1: for every ingestion job and datasource, COMPLETED and FAILED are never
\* both written, and once COMPLETED is written every chunk the job produced
\* for that datasource has a committed row in Embeddings.
C1_OneTerminalStatus ==
  \A k \in ChainKeys :
    /\ ~({"COMPLETED", "FAILED"} \subseteq WrittenTo(k))
    /\ "COMPLETED" \in WrittenTo(k) => \A c \in Produced(k) : Rows(c) >= 1

\* C1 witness: COMPLETED written for a two-chunk datasource after a retry.
C1_Witness ==
  \E k \in ChainKeys :
    /\ statusWrites[k] = <<"COMPLETED">>
    /\ Cardinality(Produced(k)) = 2
    /\ \E c \in Produced(k) : CopiesIn(c, dispatched[k]) >= 2

\* C2: COMPLETED is written at most once per ingestion job and datasource,
\* and only by an attempt that embedded every chunk of its job and whose batch
\* insert committed them; after that step no job of the chain is queued or
\* being processed (no retry debt).
C2_CompletedOnce ==
  /\ [](\A k \in ChainKeys : Count(statusWrites[k], "COMPLETED") <= 1)
  /\ [][\A k \in ChainKeys :
          Count(statusWrites'[k], "COMPLETED") > Count(statusWrites[k], "COMPLETED")
          => /\ \E w \in Workers :
                  /\ Finishes(w, k)
                  /\ \A c \in Range(wjob[w].Chunks) :
                       CopiesIn(c, Embeddings') = CopiesIn(c, Embeddings) + 1
             /\ LiveJobsIn(embeddingJobs', wpc', wjob', k) = {}]_vars

\* C2 witness: COMPLETED written by a retry attempt, the chain now idle.
C2_Witness ==
  \E k \in ChainKeys :
    /\ Count(statusWrites[k], "COMPLETED") = 1
    /\ LiveJobs(k) = {}
    /\ \E c \in Produced(k) : CopiesIn(c, dispatched[k]) = 3

\* C3 (as claimed): no chunk ever has more than one committed row, and a
\* datasource with COMPLETED written has exactly one row per chunk.
C3_OneRowPerChunk ==
  /\ \A c \in BagToSet(Embeddings) : Rows(c) <= 1
  /\ \A k \in ChainKeys :
       "COMPLETED" \in WrittenTo(k) => \A c \in Produced(k) : Rows(c) = 1

\* C4: every embedding job has RetryCount at most 3 and a jobId with one
\* "-retry" per retry; a retry job is enqueued only by a worker finishing a
\* job of the same chain, with RetryCount one more and chunks taken from that
\* job; and no chunk is ever in more than 4 accepted embedding jobs.
C4_RetryCounter ==
  /\ [](\A k \in ChainKeys :
          /\ \A j \in LiveJobs(k) :
               j.RetryCount <= maxEmbeddingRetries /\ j.JobID.retries = j.RetryCount
          /\ \A c \in Produced(k) :
               CopiesIn(c, dispatched[k]) <= maxEmbeddingRetries + 1)
  /\ [][\A i \in DOMAIN embeddingJobs' :
          (embeddingJobs'[i] \notin Range(embeddingJobs)
             /\ embeddingJobs'[i].RetryCount > 0)
          => \E w \in Workers :
               /\ Finishes(w, JobKey(embeddingJobs'[i]))
               /\ embeddingJobs'[i].RetryCount = wjob[w].RetryCount + 1
               /\ Range(embeddingJobs'[i].Chunks) \subseteq Range(wjob[w].Chunks)]_vars

\* C4 witness: a job with RetryCount 3 is queued; its chunk is in its 4th job.
C4_Witness ==
  \E i \in DOMAIN embeddingJobs :
    /\ embeddingJobs[i].RetryCount = maxEmbeddingRetries
    /\ \E c \in Range(embeddingJobs[i].Chunks) :
         CopiesIn(c, dispatched[JobKey(embeddingJobs[i])]) = maxEmbeddingRetries + 1

\* C7: once a terminal status has been written for an ingestion job's
\* datasource, no further row of that job and datasource is committed.
C7_StatusAfterRows ==
  [][\A k \in ChainKeys :
       statusWrites[k] # <<>>
       => \A c \in Produced(k) : CopiesIn(c, Embeddings') = CopiesIn(c, Embeddings)]_vars

\* C7 witness: FAILED written for a datasource that has a committed row.
C7_Witness ==
  \E k \in ChainKeys :
    /\ statusWrites[k] = <<"FAILED">>
    /\ \E c \in Produced(k) : Rows(c) >= 1

\* The attempt with RetryCount 3 of chain k has been processed: some chunk
\* has been in 4 accepted jobs and no job of the chain is left.
Exhausted(k) ==
  /\ LiveJobs(k) = {}
  /\ \E c \in Produced(k) : CopiesIn(c, dispatched[k]) = maxEmbeddingRetries + 1

C6_TerminalStatus ==
  /\ <>[](\A k \in ChainKeys :
            (dispatched[k] # EmptyBag)
            => (statusWrites[k] # <<>> \/ chain[k].statusErr))
  /\ [](\A k \in ChainKeys :
          (statusWrites[k] # <<>> /\ ~chain[k].statusErr)
          => /\ statusWrites[k] \in {<<"COMPLETED">>, <<"FAILED">>}
             /\ statusWrites[k] = <<"COMPLETED">>
                  <=> \A c \in Produced(k) : Rows(c) >= 1)

\* C6 witness: one datasource ended COMPLETED after a retry and another
\* FAILED, with no status update error.
C6_Witness ==
  /\ embedder /\ db /\ ~quit
  /\ \E k \in ChainKeys :
       /\ statusWrites[k] = <<"COMPLETED">> /\ ~chain[k].statusErr
       /\ \E c \in Produced(k) : CopiesIn(c, dispatched[k]) >= 2
  /\ \E k \in ChainKeys :
       statusWrites[k] = <<"FAILED">> /\ ~chain[k].statusErr

\* C8 (as claimed): every source whose download or decode failed has a
\* SourceResult with status "failed", FAILED written for its datasource, and
\* no Embeddings row.
C8_FailedSourceMarked ==
  \A w \in Workers :
    wpc[w] \in {"ingest", "dispatch"}
    => \A i \in DOMAIN results[w] :
         results[w][i].Status = "failed"
         => /\ "FAILED" \in WrittenTo(<<wjob[w].JobID, results[w][i].DatasourceID>>)
            /\ \A c \in BagToSet(Embeddings) :
                 ~(c.ing = wjob[w].JobID /\ c.Source = results[w][i].Source)

\* C9: every accepted call is answered with status "processing" and a jobId
\* no other call got; the answer is given in the step that puts the job on the
\* ingestion queue, which touches neither the orchestrator nor the storage;
\* and no later step changes an answer already given.
C9_AsyncAdmission ==
  /\ [](\A i \in DOMAIN responses :
          /\ responses[i].Status \in {"processing", "error"}
          /\ \A j \in DOMAIN responses :
               responses[i].JobID = responses[j].JobID => i = j)
  /\ [][/\ \A i \in DOMAIN responses :
             i \in DOMAIN responses' /\ responses'[i] = responses[i]
        /\ \A i \in DOMAIN responses' \ DOMAIN responses :
             responses'[i].Status = "processing"
             => /\ ingestionJobs' # <<>>
                /\ ingestionJobs'[Len(ingestionJobs')].JobID = responses'[i].JobID
                /\ ingestionJobs' = Append(ingestionJobs, ingestionJobs'[Len(ingestionJobs')])
                /\ UNCHANGED <<orchVars, workerVars, dbVars, embeddingJobs>>]_vars

\* C9 witness: a call has been answered "processing" while its job is still
\* on the ingestion queue, and another answered job already has rows.
C9_Witness ==
  /\ \E i \in DOMAIN responses :
       /\ responses[i].Status = "processing"
       /\ \E j \in DOMAIN ingestionJobs : ingestionJobs[j].JobID = responses[i].JobID
  /\ Embeddings # EmptyBag

\* A trace of ingestion job id: a queued or running job, an accepted
\* embedding job, a status write or a row.
Traces(id) ==
  \/ \E j \in DOMAIN ingestionJobs : ingestionJobs[j].JobID = id
  \/ \E w \in Workers : wpc[w] \in {"ingest", "dispatch"} /\ wjob[w].JobID = id
  \/ \E d \in DSIds : dispatched[<<id, d>>] # EmptyBag \/ statusWrites[<<id, d>>] # <<>>
  \/ \E c \in BagToSet(Embeddings) : c.ing = id

\* C10: a call made while the ingestion queue is full is answered with the
\* error "ingestion queue is full", leaves the queue and the storage as they
\* were, and the rejected job never leaves a trace in the pipeline.
C10_AdmissionRejected ==
  /\ [][\A i \in DOMAIN responses' \ DOMAIN responses :
          /\ Len(ingestionJobs) >= QueueCapacity
             => /\ responses'[i].Status = "error"
                /\ responses'[i].Error = "ingestion queue is full, try again later"
          /\ responses'[i].Status = "error"
             => UNCHANGED <<queueVars, workerVars, orchVars, dbVars, histVars>>]_vars
  /\ [](\A i \in DOMAIN responses :
          responses[i].Status = "error" => ~Traces(responses[i].JobID))

\* C10 witness: a call was rejected while the queue was full and the pool
\* not stopping.
C10_Witness ==
  /\ ~quit
  /\ Len(ingestionJobs) = QueueCapacity
  /\ \E i \in DOMAIN responses : responses[i].Status = "error"

\* C11: the response of every admitted call carries as totalSources the sum
\* of the lengths of the four source arrays of the request of that call.
C11_TotalSources ==
  \A i \in DOMAIN responses :
    responses[i].Status = "processing"
    => responses[i].TotalSources =
         Len(calls[i].WebsiteURLs) + Len(calls[i].QandAData)
           + Len(calls[i].Documents) + Len(calls[i].TextContent)

\* C11 witness: an admitted request with entries in two arrays, answered 2.
C11_Witness ==
  \E i \in DOMAIN responses :
    /\ responses[i].Status = "processing"
    /\ calls[i].Documents # <<>> /\ calls[i].TextContent # <<>>
    /\ responses[i].TotalSources = 2

\* C12: EnqueueIngestion and Enqueue never block and never overfill: the
\* caller's step is enabled whatever the queue holds; the job is appended and
\* the call answers true exactly when the pool is not stopping and the queue
\* holds fewer than capacity-many jobs; otherwise the queue is left unchanged.
C12_NonBlockingEnqueue ==
  /\ [](/\ Len(ingestionJobs) <= QueueCapacity
        /\ Len(embeddingJobs) <= QueueCapacity
        /\ \A req \in RequestsAt(calls) : ENABLED Process(req)
        /\ \A w \in Workers : \A d \in remaining[w] : ENABLED Dispatch(w, d)
        /\ \A w \in Workers : wpc[w] = "embed" => ENABLED processEmbeddingJob(w))
  /\ [][/\ Len(calls') > Len(calls)
           => IF ~quit /\ Len(ingestionJobs) < QueueCapacity
              THEN /\ ingestionJobs' = Append(ingestionJobs,
                        [JobID |-> Len(calls'), Request |-> calls'[Len(calls')]])
                   /\ responses'[Len(responses')].Status = "processing"
              ELSE /\ ingestionJobs' = ingestionJobs
                   /\ responses'[Len(responses')].Status = "error"
        /\ \A w \in Workers : \A d \in remaining[w] \ remaining'[w] :
             IF ~quit /\ Len(embeddingJobs) < QueueCapacity
             THEN embeddingJobs' =
                    Append(embeddingJobs, InitialJob(wjob[w].JobID, d, allChunks[w]))
             ELSE embeddingJobs' = embeddingJobs
        /\ \A w \in Workers : wpc[w] = "embed" /\ wpc'[w] = "select"
             => IF ~quit /\ Len(embeddingJobs) < QueueCapacity
                THEN \/ embeddingJobs' = embeddingJobs
                     \/ /\ Len(embeddingJobs') = Len(embeddingJobs) + 1
                        /\ SubSeq(embeddingJobs', 1, Len(embeddingJobs)) = embeddingJobs
                        /\ statusWrites'[JobKey(wjob[w])] = statusWrites[JobKey(wjob[w])]
                           \/ "COMPLETED" \in Range(statusWrites'[JobKey(wjob[w])])
                ELSE embeddingJobs' = embeddingJobs]_vars

\* C12 witness: the pool never stopped; a retry job was refused by the
\* embedding queue, which is still full, before the retry budget was used up.
C12_Witness ==
  /\ ~quit
  /\ Len(embeddingJobs) = QueueCapacity
  /\ \E k \in ChainKeys :
       /\ statusWrites[k] = <<"FAILED">>
       /\ \A c \in Produced(k) : CopiesIn(c, dispatched[k]) <= maxEmbeddingRetries

C14_StopWaits ==
  /\ [](/\ stopWait # "idle" => quit
        /\ stopWait = "stopped" => \A w \in Workers : wpc[w] = "exited"
        /\ \A w \in Workers :
             (quit /\ wpc[w] = "embed") => ENABLED processEmbeddingJob(w)
        /\ \A w \in Workers :
             (quit /\ wpc[w] = "ingest")
             => ENABLED (FanIn(w) \/ \E s \in pending[w] : SourceTask(w, s))
        /\ \A w \in Workers : \A d \in remaining[w] : ENABLED Dispatch(w, d))
  /\ [][/\ \A w \in Workers :
             (wpc'[w] = "exited" /\ wpc[w] # "exited")
             => wpc[w] = "select" /\ wjob[w] = NoJob /\ quit
        /\ (stopWait = "idle" /\ stopWait' # "idle")
             => stopWait' = "waiting" /\ ~quit /\ quit' /\ wpc' = wpc /\ wjob' = wjob
        /\ (stopWait = "waiting" /\ stopWait' # "waiting")
             => stopWait' \in {"stopped", "timeout"} /\ wpc' = wpc /\ wjob' = wjob]_vars

\* C14 witness: Stop has closed quit and is still waiting: one worker has
\* exited and another is executing the embedding job it held.
C14_Witness ==
  /\ quit
  /\ stopWait = "waiting"
  /\ \E w \in Workers : wpc[w] = "exited"
  /\ \E w \in Workers : wpc[w] = "embed"

\* C15 (as claimed): when the orchestrator's Enqueue of a datasource's
\* embedding job is refused, FAILED is written for that datasource in the same
\* step; the orchestrator moves on to the next datasource without retrying.
C15_RefusedDispatchFails ==
  [][\A w \in Workers : \A d \in remaining[w] \ remaining'[w] :
       embeddingJobs' = embeddingJobs
       => /\ "FAILED" \in Range(statusWrites'[<<wjob[w].JobID, d>>])
          /\ DataSource'[d] = "FAILED"]_vars

C17_CitationRule ==
  LET has(c, k) == k \in DOMAIN c.Metadata /\ c.Metadata[k] # ""
      rule(c) ==
        IF c.SourceType = "qa" THEN "QnA"
        ELSE IF c.SourceType = "website"
             THEN IF has(c, "url") THEN c.Metadata["url"] ELSE c.Topic
        ELSE IF c.SourceType \in {"pdf", "csv", "text", "json"}
             THEN IF has(c, "filename") THEN c.Metadata["filename"] ELSE c.Topic
        ELSE c.Topic
  IN output # NoJob
     => \A i \in 1..2 :
          /\ output.chunks[i].citation = rule(input[i])
          /\ output.rows # <<>>
             => /\ ~output.rows[i].nil
                /\ output.rows[i].value = rule(input[i])

\* C17 witness: a website without url cited by its topic, a document cited
\* by its file name, and both citations stored in their rows.
C17_Witness ==
  /\ output # NoJob
  /\ output.rows # <<>>
  /\ input[1].SourceType = "website" /\ "url" \notin DOMAIN input[1].Metadata
  /\ output.rows[1].value = input[1].Topic
  /\ input[2].SourceType = "pdf" /\ "filename" \in DOMAIN input[2].Metadata
  /\ output.rows[2].value = "x"

\* C18 (as claimed): two contents with equal sourceType and equal metadata
\* get the same citation, whatever their other fields are.
C18_CitationFromTypeAndMetadata ==
  (output # NoJob
     /\ input[1].SourceType = input[2].SourceType
     /\ input[1].Metadata = input[2].Metadata)
  => output.chunks[1].citation = output.chunks[2].citation

\* C18 (amended): two contents with equal sourceType, equal metadata and
\* equal topic get the same citation, whatever their other fields are.
C18_CitationFromTypeMetadataTopic ==
  (output # NoJob
     /\ input[1].SourceType = input[2].SourceType
     /\ input[1].Metadata = input[2].Metadata
     /\ input[1].Topic = input[2].Topic)
  => output.chunks[1].citation = output.chunks[2].citation

\* C18 witness: two contents that differ in their text only, cited alike by
\* the topic they share.
C18_Witness ==
  /\ output # NoJob
  /\ input[1].SourceType = input[2].SourceType
  /\ input[1].Metadata = input[2].Metadata
  /\ input[1].Topic = input[2].Topic
  /\ input[1].Content # input[2].Content
  /\ output.chunks[1].citation = input[1].Topic
  /\ output.chunks[2].citation = input[2].Topic

\* C19: no chunk returned by ChunkText is longer, in runes, than the chunk
\* size plus the overlap plus 2, the length of the longest separator,
\* whatever the text and the configuration NewChunker kept.
C19_ChunkLengthBound ==
  output # NoJob =>
    LET c == NewChunker(input.chunkSize, input.chunkOverlap)
    IN \A i \in DOMAIN output.chunks :
         Len(output.chunks[i]) <= c.ChunkSize + c.ChunkOverlap + 2

C21_NoBlankChunk ==
  output # NoJob =>
    \A i \in DOMAIN output.chunks : TrimSpace(output.chunks[i]) # <<>>

\* C22: a request whose four source arrays are all absent or empty is
\* rejected with a validation error before admission: the handler answers
\* 400, Service.Process is not called and no ingestion job is enqueued for
\* it, so no queued job ever carries such a request.
C22_NoSourcesRejected ==
  /\ [][\A req \in AdmitRequests :
          (/\ calculateTotalSources(req) = 0
           /\ ControllerProcess(req))
          => /\ ingestionJobs' = ingestionJobs
             /\ calls' = calls
             /\ responses' = responses
             /\ Len(output') = Len(output) + 1
             /\ output'[Len(output')].Code = 400
             /\ output'[Len(output')].Request = req]_vars
  /\ [](\A j \in DOMAIN ingestionJobs :
          calculateTotalSources(ingestionJobs[j].Request) > 0)

C22_Witness ==
  /\ Len(output) = 1
  /\ output[1].Code = 400
  /\ calculateTotalSources(output[1].Request) = 0
  /\ Len(calls) = 1
  /\ Len(ingestionJobs) = 1
  /\ responses[1].Status = "processing"

\* C23: during EmbedBatch at no moment are more than 5 EmbedText calls in
\* flight, whatever the number of texts and the scheduling; and a call that
\* does not return the context's error returns only after every call it
\* started has finished (here: every text's goroutine has run to its end).
C23_AtMostFiveInFlight ==
  /\ Cardinality(InFlight) <= 5
  /\ (output.pc = "returned" /\ output.ret \notin {"ctx.Err", "no texts provided"})
       => \A t \in TextIds : output.call[t] = "released"

C23_Witness ==
  /\ input.texts > 5
  /\ output.pc = "returned"
  /\ output.ret = "embeddings"
  /\ ~output.ctxDone
  /\ \A t \in TextIds : output.call[t] = "released"

\* C24 as stated: the capacity of each of the two queues is workerCount x
\* batchSize with a floor of 100, so it is never below 100.
C24_CapacityFloor ==
  output # NoJob =>
    /\ output.embeddingJobs >= 100
    /\ output.ingestionJobs >= 100

\* C24: the capacity of each of the two queues is workerCount x batchSize
\* when that product is positive, and 100 when it is zero or negative; a
\* positive product below 100 is used as it is.
C24_CapacityDefault ==
  output # NoJob =>
    LET product == input.WorkerCount * input.BatchSize
    IN /\ output.embeddingJobs = IF product > 0 THEN product ELSE 100
       /\ output.ingestionJobs = output.embeddingJobs

C24_Witness ==
  /\ output # NoJob
  /\ input.WorkerCount * input.BatchSize > 0
  /\ input.WorkerCount * input.BatchSize < 100
  /\ output.ingestionJobs = input.WorkerCount * input.BatchSize

\* C25: a failed datasource status write is only logged, never retried: when
\* an attempt inserted the rows of all chunks of its job and the COMPLETED
\* update then failed (no COMPLETED is written in that step), the job is not
\* requeued; the embedding queue is left as it was.
C25_StatusErrorNotRetried ==
  [][\A w \in Workers :
       (/\ wpc[w] = "embed" /\ wpc'[w] = "select"
        /\ embedder /\ db
        /\ Embeddings' = Embeddings (+) SetToBag(Range(wjob[w].Chunks))
        /\ statusWrites'[JobKey(wjob[w])] = statusWrites[JobKey(wjob[w])])
       => embeddingJobs' = embeddingJobs]_vars

\* C26: when the batch insert of an attempt fails, the attempt commits no
\* row and writes no COMPLETED, and the retry path gets the whole chunk list
\* of the job, embedded or not, as one retry job. Stated for every attempt
\* that ends without a new row while embedder and storage are configured
\* (the insert failed, or no chunk was embedded): the queue takes exactly
\* the retry job over all chunks of the job whenever the retry budget and
\* the queue allow it, and nothing otherwise.
C26_InsertFailureRetriesAll ==
  [][\A w \in Workers :
       (/\ wpc[w] = "embed" /\ wpc'[w] = "select"
        /\ embedder /\ db
        /\ Embeddings' = Embeddings)
       => LET job == wjob[w]
              retry == [JobID |-> [job.JobID EXCEPT !.retries = @ + 1],
                        Chunks |-> job.Chunks,
                        RetryCount |-> job.RetryCount + 1]
          IN /\ Count(statusWrites'[JobKey(job)], "COMPLETED")
                  = Count(statusWrites[JobKey(job)], "COMPLETED")
             /\ IF job.RetryCount < 3 /\ ~quit /\ Len(embeddingJobs) < QueueCapacity
                THEN embeddingJobs' = Append(embeddingJobs, retry)
                ELSE embeddingJobs' = embeddingJobs]_vars

\* A retry job over two chunks is queued, a chunk of its chain was embedded
\* and no row of the chain was committed: an insert failed.
C26_Witness ==
  \E i \in DOMAIN embeddingJobs :
    /\ embeddingJobs[i].RetryCount = 1
    /\ Len(embeddingJobs[i].Chunks) = 2
    /\ chain[JobKey(embeddingJobs[i])].embedded
    /\ \A c \in Range(embeddingJobs[i].Chunks) : Rows(c) = 0

C28_NoEmbedderNoEffect ==
  [][\A w \in Workers :
       (wpc[w] = "embed" /\ wpc'[w] = "select" /\ ~embedder)
       => /\ embeddingJobs' = embeddingJobs
          /\ Embeddings' = Embeddings
          /\ DataSource' = DataSource
          /\ statusWrites' = statusWrites
          /\ wjob'[w] = NoJob]_vars

\* Without an embedder a dispatched job is gone, nothing written for it.
C28_Witness ==
  /\ ~embedder
  /\ \E k \in ChainKeys :
       /\ Produced(k) # {}
       /\ LiveJobs(k) = {}
       /\ WrittenTo(k) = {}
       /\ \A c \in Produced(k) : Rows(c) = 0

\* C29: within one ingestion job no embedding job is enqueued before every
\* per-source task of that job has finished. A worker that is dispatching
\* has no source task left and one result per source; a first-generation
\* embedding job enters the queue only from such a worker; and while a
\* worker is still collecting the sources of an ingestion job, nothing has
\* been dispatched for that job.
C29_JoinBeforeDispatch ==
  /\ [](\A w \in Workers :
          /\ wpc[w] = "dispatch"
               => /\ pending[w] = {}
                  /\ Len(results[w]) = calculateTotalSources(wjob[w].Request)
          /\ wpc[w] = "ingest"
               => \A d \in DSIds : dispatched[<<wjob[w].JobID, d>>] = EmptyBag)
  /\ [][(/\ Len(embeddingJobs') > Len(embeddingJobs)
         /\ embeddingJobs'[Len(embeddingJobs')].RetryCount = 0)
        => \E w \in Workers :
             /\ wpc[w] = "dispatch"
             /\ wjob[w].JobID = embeddingJobs'[Len(embeddingJobs')].JobID.ing
             /\ pending[w] = {}
             /\ Len(results[w]) = calculateTotalSources(wjob[w].Request)]_vars

\* The first datasource of a two-source request is dispatched, the second
\* is still to come.
C29_Witness ==
  \E w \in Workers :
    /\ wpc[w] = "dispatch"
    /\ Len(results[w]) = 2
    /\ remaining[w] # {}
    /\ \E i \in DOMAIN embeddingJobs :
         /\ embeddingJobs[i].JobID.ing = wjob[w].JobID
         /\ embeddingJobs[i].RetryCount = 0

\* C30: after fan-in the collected chunks are partitioned by datasourceId.
\* The datasources to dispatch are exactly the distinct ids on the collected
\* chunks; each dispatch step builds the one job of one of them, made of all
\* collected chunks with that id, from every source that shares it, in the
\* order collected, and of no other chunk; so every chunk of a job carries
\* the job's datasourceId and every collected chunk is in exactly one job.
C30_PartitionByDatasource ==
  /\ [](\A i \in DOMAIN embeddingJobs :
          \A c \in Range(embeddingJobs[i].Chunks) :
            /\ c.DatasourceID = embeddingJobs[i].JobID.ds
            /\ c.ing = embeddingJobs[i].JobID.ing)
  /\ [](\A w \in Workers :
          wpc[w] = "dispatch"
          => LET ids == {c.DatasourceID : c \in Range(allChunks[w])}
             IN /\ remaining[w] \subseteq ids
                /\ \A d \in ids \ remaining[w] :
                     BagToSet(dispatched[<<wjob[w].JobID, d>>])
                       \in {{}, {c \in Range(allChunks[w]) : c.DatasourceID = d}})
  /\ [][\A w \in Workers :
          /\ (wpc[w] = "ingest" /\ wpc'[w] = "dispatch")
               => remaining'[w] = {c.DatasourceID : c \in Range(allChunks[w])}
          /\ (wpc[w] = "dispatch" /\ remaining'[w] # remaining[w])
               => \E d \in remaining[w] :
                    LET job == [JobID |-> [ing |-> wjob[w].JobID, ds |-> d,
                                           retries |-> 0],
                                Chunks |-> SelectSeq(allChunks[w],
                                             LAMBDA c : c.DatasourceID = d),
                                RetryCount |-> 0]
                    IN /\ remaining'[w] = remaining[w] \ {d}
                       /\ embeddingJobs' \in
                            {embeddingJobs, Append(embeddingJobs, job)}]_vars

\* Two sources of one request share a datasource and their chunks are in
\* the one job dispatched for it.
C30_Witness ==
  \E i \in DOMAIN embeddingJobs :
    /\ embeddingJobs[i].RetryCount = 0
    /\ Len(embeddingJobs[i].Chunks) = 2
    /\ embeddingJobs[i].Chunks[1].Source # embeddingJobs[i].Chunks[2].Source
    /\ embeddingJobs[i].Chunks[1].DatasourceID = embeddingJobs[i].Chunks[2].DatasourceID

\* C31: a per-source error never aborts the orchestrator. Whatever sources
\* fail to download or decode, when the orchestrator leaves fan-in every
\* source of the request has exactly one SourceResult and the collected
\* chunks hold the chunks of every successful source; each dispatch that the
\* embedding queue accepts then enqueues all collected chunks of its
\* datasource.
C31_SourceErrorsDoNotAbort ==
  /\ [][\A w \in Workers :
          (wpc[w] = "ingest" /\ wpc'[w] # "ingest")
          => /\ \A s \in SourcesOf(wjob[w].Request) :
                  Cardinality({i \in DOMAIN results[w] :
                                 results[w][i].Source = s}) = 1
             /\ Len(results[w]) = Cardinality(SourcesOf(wjob[w].Request))
             /\ \A i \in DOMAIN results[w] :
                  results[w][i].Status = "success"
                  => Cardinality({j \in DOMAIN allChunks[w] :
                                    allChunks[w][j].Source = results[w][i].Source})
                       = results[w][i].ChunkCount
             /\ (\E c \in Range(allChunks[w]) : TRUE) => wpc'[w] = "dispatch"]_vars
  /\ [][\A w \in Workers :
          (/\ wpc[w] = "dispatch" /\ remaining'[w] # remaining[w]
           /\ ~quit /\ Len(embeddingJobs) < QueueCapacity)
          => /\ Len(embeddingJobs') = Len(embeddingJobs) + 1
             /\ \E d \in remaining[w] \ remaining'[w] :
                  {c \in Range(allChunks[w]) : c.DatasourceID = d}
                    = Range(embeddingJobs'[Len(embeddingJobs')].Chunks)]_vars

\* Fan-in is over with one source of the request failed and another
\* successful, whose chunk is collected and whose datasource is up for
\* dispatch.
C31_Witness ==
  \E w \in Workers :
    /\ wpc[w] = "dispatch"
    /\ \E i, j \in DOMAIN results[w] :
         /\ results[w][i].Status = "failed"
         /\ results[w][j].Status = "success"
         /\ results[w][j].DatasourceID \in remaining[w]
         /\ \E c \in Range(allChunks[w]) : c.Source = results[w][j].Source

\* C32: under every interleaving of the per-source tasks no update of the
\* shared collectors is lost or duplicated: while the sources are collected
\* and after fan-in, totalChunks is the sum of the chunk counts of the
\* successful sources reported so far, and allChunks holds exactly the
\* chunks of those sources, each once.
C32_CollectorsExact ==
  \A w \in Workers :
    wpc[w] \in {"ingest", "dispatch"}
    => LET ok == {i \in DOMAIN results[w] : results[w][i].Status = "success"}
           Sum[i \in 0..Len(results[w])] ==
             IF i = 0 THEN 0
             ELSE Sum[i - 1] + (IF i \in ok THEN results[w][i].ChunkCount ELSE 0)
       IN /\ totalChunks[w] = Sum[Len(results[w])]
          /\ Len(allChunks[w]) = totalChunks[w]
          /\ Cardinality(Range(allChunks[w])) = Len(allChunks[w])
          /\ \A i \in ok :
               Cardinality({c \in Range(allChunks[w]) :
                              c.Source = results[w][i].Source})
                 = results[w][i].ChunkCount
          /\ \A c \in Range(allChunks[w]) :
               \E i \in ok : results[w][i].Source = c.Source

\* Fan-in is over with two successful sources, one chunk each.
C32_Witness ==
  \E w \in Workers :
    /\ wpc[w] = "dispatch"
    /\ totalChunks[w] = 2
    /\ Len(allChunks[w]) = 2
    /\ allChunks[w][1].Source # allChunks[w][2].Source

\* C33: the factory chooses the decoder of a document from the content type
\* and the lower-cased file name by the first rule that matches: "pdf" in
\* the content type or suffix .pdf gives PDF; "csv" in the content type or
\* suffix .csv gives CSV; suffix .md or .markdown gives Markdown; "text" in
\* the content type or suffix .txt gives Text; anything else gives Text.
C33_DecoderPriority ==
  output # NoJob =>
    LET name == ToLower(input.filename)
        ct == input.contentType
        pdf == Contains(ct, <<"p", "d", "f">>) \/ HasSuffix(name, <<".", "p", "d", "f">>)
        csv == Contains(ct, <<"c", "s", "v">>) \/ HasSuffix(name, <<".", "c", "s", "v">>)
        md == HasSuffix(name, <<".", "m", "d">>) \/ HasSuffix(name, <<".", "m", "a", "r", "k", "d", "o", "w", "n">>)
    IN /\ pdf => output.processor = "PDFProcessor"
       /\ (~pdf /\ csv) => output.processor = "CSVProcessor"
       /\ (~pdf /\ ~csv /\ md) => output.processor = "MarkdownProcessor"
       /\ (~pdf /\ ~csv /\ ~md) => output.processor = "TextFileProcessor"

\* Content type text/plain with an upper-case suffix .MD gives Markdown.
C33_Witness ==
  /\ output # NoJob
  /\ input.contentType = <<"t", "e", "x", "t", "/", "p", "l", "a", "i", "n">>
  /\ HasSuffix(input.filename, <<".", "M", "D">>)
  /\ output.processor = "MarkdownProcessor"

C35_OneLiveJobPerChain ==
  /\ [](\A k \in DOMAIN chain :
          Cardinality({i \in DOMAIN embeddingJobs : JobKey(embeddingJobs[i]) = k})
            + Cardinality({w \in Workers : wpc[w] = "embed" /\ JobKey(wjob[w]) = k})
          <= 1)
  /\ [][\A w \in Workers :
          (/\ wpc[w] = "embed" /\ wpc'[w] # "embed"
           /\ embeddingJobs' # embeddingJobs)
          => /\ wpc'[w] = "select"
             /\ embeddingJobs' = Append(embeddingJobs, embeddingJobs'[Len(embeddingJobs')])
             /\ JobKey(embeddingJobs'[Len(embeddingJobs')]) = JobKey(wjob[w])
             /\ embeddingJobs'[Len(embeddingJobs')].RetryCount = wjob[w].RetryCount + 1]_vars

\* Both workers are processing embedding jobs, one of them a retry: the jobs
\* belong to different chains.
C35_Witness ==
  /\ \A w \in Workers : wpc[w] = "embed"
  /\ \E w \in Workers : wjob[w].RetryCount >= 1

\* C36: a status is written only by the processing of an embedding job, only
\* for datasource ids found on the chunks of that job, and only as COMPLETED
\* or FAILED: a step changes the status of no other datasource, and PENDING
\* (the value a datasource has before the pipeline touches it) and PROCESSING
\* are never written.
C36_StatusFrame ==
  /\ [](/\ \A d \in DSIds : DataSource[d] \in {"PENDING", "COMPLETED", "FAILED"}
        /\ \A k \in DOMAIN statusWrites :
             Range(statusWrites[k]) \subseteq {"COMPLETED", "FAILED"})
  /\ [][/\ \A d \in DSIds :
             DataSource'[d] # DataSource[d]
             => /\ DataSource'[d] \in {"COMPLETED", "FAILED"}
                /\ \E w \in Workers :
                     /\ wpc[w] = "embed" /\ wpc'[w] = "select"
                     /\ d \in DatasourceIDs(wjob[w].Chunks)
        /\ \A k \in DOMAIN statusWrites :
             statusWrites'[k] # statusWrites[k]
             => /\ \E s \in {"COMPLETED", "FAILED"} :
                     statusWrites'[k] = Append(statusWrites[k], s)
                /\ DataSource'[k[2]] = statusWrites'[k][Len(statusWrites'[k])]
                /\ \E w \in Workers :
                     /\ wpc[w] = "embed" /\ wpc'[w] = "select"
                     /\ wjob[w].JobID.ing = k[1]
                     /\ k[2] \in DatasourceIDs(wjob[w].Chunks)]_vars

\* One datasource of a job has been written while the other datasource of
\* the same job, whose chunks were dispatched too, still has the status it
\* came with.
C36_Witness ==
  \E i \in IngIds, d \in DSIds, e \in DSIds :
    /\ d # e
    /\ statusWrites[<<i, d>>] # <<>>
    /\ dispatched[<<i, e>>] # EmptyBag
    /\ statusWrites[<<i, e>>] = <<>>
    /\ DataSource[e] = "PENDING"

C39_RepeatSafe ==
  /\ [](/\ Cardinality({w \in Workers : wpc[w] # "unspawned"}) \in {0, NumWorkers}
        /\ started <=> \A w \in Workers : wpc[w] # "unspawned"
        /\ output = NoJob)
  /\ [][(started /\ input' # input) => pipeVars' = pipeVars]_vars

\* C40: the pipeline never removes an Embeddings row. No step lowers the
\* number of rows of any chunk, whether it marks a datasource FAILED, refuses
\* a retry or does anything else, so in every state a chunk has at least the
\* rows each earlier state of the behaviour showed; the rows that are added
\* are rows of chunks of the job the worker is ending.
C40_RowsNeverRemoved ==
  [][/\ \A c \in BagToSet(Embeddings) : CopiesIn(c, Embeddings') >= CopiesIn(c, Embeddings)
     /\ Embeddings' # Embeddings
        => \E w \in Workers :
             /\ wpc[w] = "embed" /\ wpc'[w] = "select"
             /\ db
             /\ BagToSet(Embeddings') \subseteq BagToSet(Embeddings) \cup Range(wjob[w].Chunks)
     /\ \A k \in ChainKeys :
          (Len(statusWrites'[k]) > Len(statusWrites[k])
             /\ statusWrites'[k][Len(statusWrites'[k])] = "FAILED")
          => \A c \in Produced(k) : CopiesIn(c, Embeddings') >= CopiesIn(c, Embeddings)]_vars

\* A datasource is FAILED while one of the chunks produced for it has a row
\* and another has none, and no job of the chain is left.
C40_Witness ==
  \E k \in ChainKeys :
    /\ DataSource[k[2]] = "FAILED"
    /\ statusWrites[k] # <<>>
    /\ statusWrites[k][Len(statusWrites[k])] = "FAILED"
    /\ LiveJobs(k) = {}
    /\ \E c \in Produced(k) : Rows(c) > 0
    /\ \E c \in Produced(k) : Rows(c) = 0

====
